---- MODULE Spec2Model ----
(***************************************************************************)
(* A model of the streamtime harvesting pipeline: the watch_history store   *)
(* and its upsert, the scraper Manager (Run, RunAll), the Netflix CSV      *)
(* importer, and the pagination loops of the Netflix and YouTube TV        *)
(* scrapers.                                                               *)
(*                                                                         *)
(* Text is modelled as a tuple of one-character strings, so that the       *)
(* splitting and trimming the code does on titles is computed, not assumed. *)
(***************************************************************************)
EXTENDS Integers, Sequences, FiniteSets, TLC

(***************************************************************************)
(* Bounds of the model.                                                    *)
(***************************************************************************)
\* longest list of items a driver returns from one Scrape
MaxItems == 2
\* number of data rows in an imported CSV file
MaxRows == 2
\* the longest feed a page renders
MaxFeed == 3
\* Scraper.TestLimit of the configuration
TestLimit == 2

(***************************************************************************)
(* Text helpers (Go: strings.TrimSpace, strings.Contains, strings.SplitN). *)
(***************************************************************************)
RECURSIVE TrimLeft(_)
TrimLeft(s) == IF s # <<>> /\ Head(s) = " " THEN TrimLeft(Tail(s)) ELSE s

RECURSIVE TrimRight(_)
TrimRight(s) ==
    IF s # <<>> /\ s[Len(s)] = " " THEN TrimRight(SubSeq(s, 1, Len(s) - 1)) ELSE s

TrimSpace(s) == TrimRight(TrimLeft(s))

Contains(s, c) == \E i \in 1..Len(s) : s[i] = c

\* the index of the first c in s, 0 when there is none
IndexOf(s, c) ==
    IF Contains(s, c)
    THEN CHOOSE i \in 1..Len(s) : s[i] = c /\ \A j \in 1..(i - 1) : s[j] # c
    ELSE 0

\* strings.SplitN(s, ":", 2)
SplitN2(s) ==
    IF Contains(s, ":")
    THEN << SubSeq(s, 1, IndexOf(s, ":") - 1),
            SubSeq(s, IndexOf(s, ":") + 1, Len(s)) >>
    ELSE << s >>

(***************************************************************************)
(* The services table, as seedServices fills it. A name's id is its        *)
(* position (AUTOINCREMENT from 1); 0 stands for "no such row" (nil).      *)
(***************************************************************************)
SeedServices ==
    << "Netflix", "YouTube TV", "Amazon Video", "HBO Max", "Apple TV+", "Peacock" >>

\* GetServiceByName when the query itself succeeds: the id, or 0 for nil
GetServiceByName(name) ==
    IF \E i \in 1..Len(SeedServices) : SeedServices[i] = name
    THEN CHOOSE i \in 1..Len(SeedServices) : SeedServices[i] = name
    ELSE 0

(***************************************************************************)
(* The watch_history table: a set of rows. The AUTOINCREMENT id and the     *)
(* created stamp of a row are left out: nothing in the pipeline reads them. *)
(***************************************************************************)

\* UNIQUE(service_id, title, watched_at): the rows an insert of wh conflicts with
Conflicts(st, wh) ==
    { r \in st : /\ r.ServiceID = wh.ServiceID
                 /\ r.Title = wh.Title
                 /\ r.WatchedAt = wh.WatchedAt }

\* a plausible slip: the conflict target also names episode_info
ConflictsWithEpisode(st, wh) ==
    { r \in st : /\ r.ServiceID = wh.ServiceID
                 /\ r.Title = wh.Title
                 /\ r.WatchedAt = wh.WatchedAt
                 /\ r.EpisodeInfo = wh.EpisodeInfo }

Row(wh) ==
    [ ServiceID |-> wh.ServiceID, Title |-> wh.Title,
      DurationMinutes |-> wh.DurationMinutes, WatchedAt |-> wh.WatchedAt,
      EpisodeInfo |-> wh.EpisodeInfo, ThumbnailURL |-> wh.ThumbnailURL,
      Genre |-> wh.Genre ]

\* a slip: ON CONFLICT(service_id, title, watched_at, episode_info)
InsertWatchHistoryEpisodeKey(st, wh) ==
    IF ConflictsWithEpisode(st, wh) # {}
    THEN { IF r \in ConflictsWithEpisode(st, wh) THEN Row(wh) ELSE r : r \in st }
    ELSE st \cup { Row(wh) }

\* a slip: the conflicting row is deleted instead of updated
InsertWatchHistoryDropOnConflict(st, wh) ==
    IF Conflicts(st, wh) # {}
    THEN st \ Conflicts(st, wh)
    ELSE st \cup { Row(wh) }

\* a slip: ON CONFLICT(service_id, title), the latest watch of a title replaces
\* the earlier
InsertWatchHistoryTitleKey(st, wh) ==
    LET same == { r \in st : r.ServiceID = wh.ServiceID /\ r.Title = wh.Title }
    IN  (st \ same) \cup { Row(wh) }

\* The store after a successful InsertWatchHistory(wh): INSERT ... ON CONFLICT
\* (service_id, title, watched_at) DO UPDATE SET duration_minutes, episode_info,
\* thumbnail_url, genre.
InsertWatchHistory(st, wh) ==
    IF Conflicts(st, wh) # {}
    THEN { IF r \in Conflicts(st, wh) THEN Row(wh) ELSE r : r \in st }
    ELSE st \cup { Row(wh) }

\* The run log scraper_runs: a plain INSERT, appended at the end.
ScraperRun(serviceID, status, message, n) ==
    [ ServiceID |-> serviceID, Status |-> status,
      ErrorMessage |-> message, ItemsScraped |-> n ]


\* InsertScraperRun: the log after the call; ok is whether db.Exec succeeded
InsertScraperRun(log, run, ok) == IF ok THEN Append(log, run) ELSE log

(***************************************************************************)
(* Inputs of the Manager: the drivers that can be registered, what a       *)
(* driver's Scrape can return, the errors of the collaborators.            *)
(***************************************************************************)
\* the two scrapers main registers
MainScrapers == { "Netflix", "YouTube TV" }

\* those, and the mock of TestRunAll, which has no row in the services table
DriverNames == MainScrapers \cup { "test_service_2" }

ErrScraperNotFound == "scraper not found"
ErrServiceNotFound == "service not found in database"
ErrNoDataFound == "no viewing history data found"
ErrNavigationFailed == "navigation failed"
\* the error of a failed database call
ErrDatabase == "database is locked"

\* the errors a driver's Scrape returns
DriverErrors == { ErrNoDataFound }

\* a calendar date, as << year, month, day >>
Jan15 == << 2025, 1, 15 >>

WatchHistory(sid, t, e, d, at) ==
    [ ServiceID |-> sid, Title |-> t, DurationMinutes |-> d, WatchedAt |-> at,
      EpisodeInfo |-> e, ThumbnailURL |-> <<>>, Genre |-> <<>> ]

\* The items a driver can return. ServiceID is 0 when the driver leaves it unset
\* (Netflix, the mocks) and the id of YouTube TV when the shared-feed driver
\* sets it. Title A comes as a film (105 minutes) and as an episode (40): two
\* items with one key and different durations.
DriverItems ==
    { WatchHistory(0, <<"A">>, <<>>, 105, Jan15), WatchHistory(0, <<"A">>, <<"e">>, 40, Jan15),
      WatchHistory(2, <<"A">>, <<>>, 105, Jan15) }

RECURSIVE SeqsUpTo(_, _)
SeqsUpTo(S, n) ==
    IF n = 0 THEN { <<>> }
    ELSE SeqsUpTo(S, n - 1) \cup
         { Append(q, x) : q \in { r \in SeqsUpTo(S, n - 1) : Len(r) = n - 1 }, x \in S }

\* what a successful Scrape can return
Batches == SeqsUpTo(DriverItems, MaxItems)

NoIns == [ done |-> FALSE ]
NoPrev == [ op |-> "none" ]

NilResult == [ ServiceName |-> "", ItemsScraped |-> 0, Success |-> FALSE, Error |-> "" ]

\* result := &Result{ServiceName: serviceName, StartTime: time.Now()}
NewResult(name) ==
    [ ServiceName |-> name, ItemsScraped |-> 0, Success |-> FALSE, Error |-> "" ]

(***************************************************************************)
(* Dates. A date text is a tuple of tokens: numerals, month names and the  *)
(* separators between them, each a string. time.Parse is modelled layout   *)
(* by layout: the tokens a layout accepts and the date it makes of them.   *)
(***************************************************************************)
\* the numerals of the date texts: << text, value, number of digits >>
Numerals ==
    { << "00", 0, 2 >>, << "1", 1, 1 >>, << "01", 1, 2 >>, << "5", 5, 1 >>,
      << "05", 5, 2 >>, << "6", 6, 1 >>, << "10", 10, 2 >>, << "12", 12, 2 >>,
      << "15", 15, 2 >>, << "24", 24, 2 >>, << "25", 25, 2 >>,
      << "27", 27, 2 >>, << "28", 28, 2 >>, << "29", 29, 2 >>, << "31", 31, 2 >>, << "68", 68, 2 >>, << "69", 69, 2 >>,
      << "1968", 1968, 4 >>, << "1969", 1969, 4 >>, << "2024", 2024, 4 >>,
      << "2025", 2025, 4 >>, << "2068", 2068, 4 >>, << "2069", 2069, 4 >> }

IsNum(tok) == \E n \in Numerals : n[1] = tok
Val(tok) == (CHOOSE n \in Numerals : n[1] = tok)[2]
Digits(tok) == (CHOOSE n \in Numerals : n[1] = tok)[3]

\* the month names of Go's time package: << long, short, number >>
Months ==
    { << "January", "Jan", 1 >>, << "October", "Oct", 10 >>, << "December", "Dec", 12 >> }

DaysIn(y, m) ==
    IF m \in { 4, 6, 9, 11 } THEN 30
    ELSE IF m # 2 THEN 31
    ELSE IF (y % 4 = 0 /\ y % 100 # 0) \/ y % 400 = 0 THEN 29 ELSE 28

ValidDate(y, m, d) == m \in 1..12 /\ d >= 1 /\ d <= DaysIn(y, m)

NoDate == [ ok |-> FALSE, t |-> << 1, 1, 1 >> ]
Date(y, m, d) == IF ValidDate(y, m, d) THEN [ ok |-> TRUE, t |-> << y, m, d >> ] ELSE NoDate

\* a slip: every two-digit year is of this century
TwoDigitYearThisCentury(yy) == 2000 + yy

\* a two-digit year: 69..99 are 19xx, 00..68 are 20xx
TwoDigitYear(yy) == IF yy >= 69 THEN 1900 + yy ELSE 2000 + yy

\* layout "1/2/06"
ParseMDYY(x) ==
    IF /\ Len(x) = 5 /\ x[2] = "/" /\ x[4] = "/"
       /\ IsNum(x[1]) /\ IsNum(x[3]) /\ IsNum(x[5])
       /\ Digits(x[1]) <= 2 /\ Digits(x[3]) <= 2 /\ Digits(x[5]) = 2
    THEN Date(TwoDigitYear(Val(x[5])), Val(x[1]), Val(x[3]))
    ELSE NoDate

\* layout "01/02/2006"
ParseMMDDYYYY(x) ==
    IF /\ Len(x) = 5 /\ x[2] = "/" /\ x[4] = "/"
       /\ IsNum(x[1]) /\ IsNum(x[3]) /\ IsNum(x[5])
       /\ Digits(x[1]) = 2 /\ Digits(x[3]) = 2 /\ Digits(x[5]) = 4
    THEN Date(Val(x[5]), Val(x[1]), Val(x[3]))
    ELSE NoDate

\* layout "1/2/2006"
ParseMDYYYY(x) ==
    IF /\ Len(x) = 5 /\ x[2] = "/" /\ x[4] = "/"
       /\ IsNum(x[1]) /\ IsNum(x[3]) /\ IsNum(x[5])
       /\ Digits(x[1]) <= 2 /\ Digits(x[3]) <= 2 /\ Digits(x[5]) = 4
    THEN Date(Val(x[5]), Val(x[1]), Val(x[3]))
    ELSE NoDate

\* layout "2006-01-02"
ParseISO(x) ==
    IF /\ Len(x) = 5 /\ x[2] = "-" /\ x[4] = "-"
       /\ IsNum(x[1]) /\ IsNum(x[3]) /\ IsNum(x[5])
       /\ Digits(x[1]) = 4 /\ Digits(x[3]) = 2 /\ Digits(x[5]) = 2
    THEN Date(Val(x[1]), Val(x[3]), Val(x[5]))
    ELSE NoDate

\* layouts "Jan 2, 2006" (col = 2) and "January 2, 2006" (col = 1)
ParseMonthName(x, col) ==
    IF /\ Len(x) = 6 /\ x[2] = " " /\ x[4] = "," /\ x[5] = " "
       /\ \E mo \in Months : mo[col] = x[1]
       /\ IsNum(x[3]) /\ IsNum(x[6]) /\ Digits(x[3]) <= 2 /\ Digits(x[6]) = 4
    THEN Date(Val(x[6]), (CHOOSE mo \in Months : mo[col] = x[1])[3], Val(x[3]))
    ELSE NoDate

RECURSIVE FirstOk(_)
FirstOk(tries) ==
    IF tries = <<>> THEN NoDate
    ELSE IF Head(tries).ok THEN Head(tries) ELSE FirstOk(Tail(tries))

\* parseDate of the importer and of the Netflix scraper: the first layout, in
\* the order of the list, that parses the text
parseDate(x) ==
    FirstOk(<< ParseMDYY(x), ParseMMDDYYYY(x), ParseMDYYYY(x), ParseISO(x),
               ParseMonthName(x, 2), ParseMonthName(x, 1) >>)

(***************************************************************************)
(* time.Time.Format with the layouts of parseDate: the text of a date.     *)
(***************************************************************************)
\* a number in decimal, and padded with zeros to two and to four digits
Itoa(n) == ToString(n)
Zero2(n) == IF n < 10 THEN "0" \o ToString(n) ELSE ToString(n)
Zero4(n) ==
    IF n < 10 THEN "000" \o ToString(n)
    ELSE IF n < 100 THEN "00" \o ToString(n)
    ELSE IF n < 1000 THEN "0" \o ToString(n)
    ELSE ToString(n)

MonthName(m, col) == (CHOOSE mo \in Months : mo[3] = m)[col]

\* the layouts, in the order parseDate tries them
Layouts ==
    << "1/2/06", "01/02/2006", "1/2/2006", "2006-01-02", "Jan 2, 2006",
       "January 2, 2006" >>

\* t.Format(layout) for the date t = << y, m, d >>
Format(layout, t) ==
    CASE layout = "1/2/06" -> << Itoa(t[2]), "/", Itoa(t[3]), "/", Zero2(t[1] % 100) >>
      [] layout = "01/02/2006" -> << Zero2(t[2]), "/", Zero2(t[3]), "/", Zero4(t[1]) >>
      [] layout = "1/2/2006" -> << Itoa(t[2]), "/", Itoa(t[3]), "/", Zero4(t[1]) >>
      [] layout = "2006-01-02" -> << Zero4(t[1]), "-", Zero2(t[2]), "-", Zero2(t[3]) >>
      [] layout = "Jan 2, 2006" ->
            << MonthName(t[2], 2), " ", Itoa(t[3]), ",", " ", Zero4(t[1]) >>
      [] layout = "January 2, 2006" ->
            << MonthName(t[2], 1), " ", Itoa(t[3]), ",", " ", Zero4(t[1]) >>

\* the calendar dates formatted: years on both sides of the two ends of the
\* window of two-digit years, the months of Months, days of one and of two
\* digits
CalendarDates ==
    { t \in { 1968, 1969, 2025, 2068, 2069 } \X { mo[3] : mo \in Months } \X { 1, 5, 15, 31 } :
        ValidDate(t[1], t[2], t[3]) }

\* texts that are of no layout: words, nothing, a month 15, a two-digit year
\* first
OtherTexts ==
    { << "invalid", " ", "date" >>, << >>, << "15", "/", "1", "/", "25" >>,
      << "25", "-", "01", "-", "15" >>, << "Jan", " ", "15" >> }

NoParse == [ pc |-> "none" ]

(***************************************************************************)
(* The CSV importer (NetflixImporter).                                     *)
(***************************************************************************)
\* ni.serviceID, set to 1 by NewNetflixImporter
ImporterServiceID == 1

\* splitTitleAndEpisode: << title, episodeInfo >>, split at the first colon
splitTitleAndEpisode(fullTitle) ==
    IF Len(SplitN2(fullTitle)) = 1
    THEN << TrimSpace(SplitN2(fullTitle)[1]), <<>> >>
    ELSE << TrimSpace(SplitN2(fullTitle)[1]), TrimSpace(SplitN2(fullTitle)[2]) >>

\* estimateDuration of the importer
estimateDuration(title, episodeInfo) == IF episodeInfo # <<>> THEN 40 ELSE 105

\* WatchHistoryExists(serviceID, title, episodeInfo, watchedAt): whether the
\* store holds a record of that platform, title, episode label and time
WatchHistoryExists(st, sid, title, episodeInfo, watchedAt) ==
    \E r \in st : /\ r.ServiceID = sid
                  /\ r.Title = title
                  /\ r.EpisodeInfo = episodeInfo
                  /\ r.WatchedAt = watchedAt

\* what TMDBClient.SearchTitle can answer: an error, or a ContentInfo with the
\* runtime of the first search result
TMDBAnswers == { [ err |-> TRUE, DurationMinutes |-> 0 ],
                 [ err |-> FALSE, DurationMinutes |-> 50 ] }

\* the texts of the CSV cells
TitleA == << "A" >>
TitleAe == << "A", ":", " ", "e" >>
TitleAf == << "A", ":", " ", "f" >>
TitleB == << "B" >>
DateJan15 == << "1", "/", "15", "/", "25" >>
DateBad == << "n", "o" >>

\* the data records of the CSV files: a film, two episodes of one show on one
\* day, a row whose date is no date, a row of one field
CsvRecords ==
    { << TitleA, DateJan15 >>, << TitleAe, DateJan15 >>, << TitleAf, DateJan15 >>,
      << TitleB, DateBad >>, << TitleA >> }

\* the header records: two columns, one column, none (an empty file)
CsvHeaders == { << "Title", "Date" >>, << "Title" >>, <<>> }

\* the files: data records matter only under a header that is accepted
CsvFiles ==
    { [ header |-> h, rows |-> rs ] :
        h \in { x \in CsvHeaders : Len(x) >= 2 }, rs \in SeqsUpTo(CsvRecords, MaxRows) }
    \cup { [ header |-> h, rows |-> <<>> ] : h \in CsvHeaders }

NewImportResult ==
    [ TotalRows |-> 0, Imported |-> 0, Skipped |-> 0, Errors |-> 0, ErrorMessages |-> <<>> ]

\* processRow: what it returns and the store it leaves. tmdb is the answer of
\* SearchTitle, chk whether the query of WatchHistoryExists succeeded, ins
\* whether the INSERT succeeded. An existing entry makes it return nil, like a
\* stored one.
processRow(st, row, tmdb, chk, ins) ==
    LET d == parseDate(row.Date)
        te == splitTitleAndEpisode(row.Title)
        title == te[1]
        episodeInfo == te[2]
        duration == IF tmdb.err THEN estimateDuration(title, episodeInfo)
                    ELSE tmdb.DurationMinutes
        wh == WatchHistory(ImporterServiceID, title, episodeInfo, duration, d.t)
    IN  IF ~d.ok THEN [ err |-> "failed to parse date", store |-> st, wh |-> NoIns ]
        ELSE IF ~chk THEN [ err |-> "failed to check for existing entry", store |-> st,
                            wh |-> NoIns ]
        ELSE IF WatchHistoryExists(st, ImporterServiceID, title, episodeInfo, d.t)
        THEN [ err |-> "", store |-> st, wh |-> NoIns ]
        ELSE IF ~ins THEN [ err |-> "failed to insert watch history", store |-> st,
                            wh |-> NoIns ]
        ELSE [ err |-> "", store |-> InsertWatchHistory(st, wh),
               wh |-> [ done |-> TRUE, wh |-> wh, existed |-> Conflicts(st, wh) # {},
                        before |-> Cardinality(st) ] ]

(***************************************************************************)
(* The TMDB client of the importer. A TMDB is what the service answers to  *)
(* the search request and to the details request that follows it.          *)
(***************************************************************************)
\* the first entry of the results of /search/multi
SearchResults ==
    { [ MediaType |-> "movie", Title |-> "A", Name |-> "" ],
      [ MediaType |-> "", Title |-> "A", Name |-> "" ],
      [ MediaType |-> "tv", Title |-> "", Name |-> "A" ],
      [ MediaType |-> "person", Title |-> "", Name |-> "" ] }

\* runtime of /movie/{id} (0 when the field is absent or null) and
\* episode_run_time of /tv/{id}
MovieRuntimes == { 0, 50 }
EpisodeRunTimes == { << >>, << 0 >>, << 45 >>, << 40, 55 >> }

\* search: the request failed (transport, status or decoding), or the results;
\* details: the same of the details request. A film's details carry a runtime,
\* a show's the runtimes of its episodes.
TMDBs ==
    { [ search |-> "error", results |-> << >>, details |-> "error", Runtime |-> 0,
        EpisodeRunTime |-> << >> ],
      [ search |-> "ok", results |-> << >>, details |-> "error", Runtime |-> 0,
        EpisodeRunTime |-> << >> ] }
    \cup { [ search |-> "ok", results |-> << r >>, details |-> "error", Runtime |-> 0,
             EpisodeRunTime |-> << >> ] : r \in SearchResults }
    \cup { [ search |-> "ok", results |-> << r >>, details |-> "ok", Runtime |-> m,
             EpisodeRunTime |-> << >> ] :
             r \in { x \in SearchResults : x.Name = "" }, m \in MovieRuntimes }
    \cup { [ search |-> "ok", results |-> << r >>, details |-> "ok", Runtime |-> 0,
             EpisodeRunTime |-> e ] :
             r \in { x \in SearchResults : x.Name # "" }, e \in EpisodeRunTimes }

RECURSIVE Sum(_)
Sum(q) == IF q = << >> THEN 0 ELSE q[1] + Sum(Tail(q))

NoContentInfo(why) == [ err |-> TRUE, why |-> why, DurationMinutes |-> 0, MediaType |-> "" ]

getMovieDetails(tmdb) ==
    IF tmdb.details = "error" THEN NoContentInfo("details")
    ELSE [ err |-> FALSE, why |-> "", DurationMinutes |-> tmdb.Runtime,
           MediaType |-> "movie" ]

getTVShowDetails(tmdb) ==
    IF tmdb.details = "error" THEN NoContentInfo("details")
    ELSE [ err |-> FALSE, why |-> "",
           DurationMinutes |-> IF Len(tmdb.EpisodeRunTime) > 0
                               THEN Sum(tmdb.EpisodeRunTime) \div Len(tmdb.EpisodeRunTime)
                               ELSE 40,
           MediaType |-> "tv" ]

SearchTitle(tmdb) ==
    IF tmdb.search = "error" THEN NoContentInfo("search")
    ELSE IF Len(tmdb.results) = 0 THEN NoContentInfo("no results")
    ELSE LET r == tmdb.results[1]
         IN  IF r.MediaType = "movie" \/ (r.Title # "" /\ r.MediaType = "")
             THEN getMovieDetails(tmdb)
             ELSE IF r.MediaType = "tv" \/ r.Name # ""
             THEN getTVShowDetails(tmdb)
             ELSE NoContentInfo("unknown media type")

\* the rows ImportCSV hands to processRow
CsvRows ==
    { [ Title |-> TrimSpace(r[1]), Date |-> TrimSpace(r[2]) ] :
        r \in { x \in CsvRecords : Len(x) = 2 } }

NoEnrich == [ pc |-> "none" ]

(***************************************************************************)
(* The Netflix driver: what it makes of a rendered row of the viewing      *)
(* activity page. A rendered row is [ title, date ], the text of its       *)
(* .title and .date elements.                                              *)
(***************************************************************************)
IsDigit(c) == c \in { "0", "1", "2", "3", "4", "5", "6", "7", "8", "9" }

\* the length of the run of digits of s that starts at i
RECURSIVE DigitRun(_, _)
DigitRun(s, i) == IF i <= Len(s) /\ IsDigit(s[i]) THEN 1 + DigitRun(s, i + 1) ELSE 0

\* the first index from i on that holds no space
RECURSIVE SkipSpaces(_, _)
SkipSpaces(s, i) == IF i <= Len(s) /\ s[i] = " " THEN SkipSpaces(s, i + 1) ELSE i

\* where [Ee] stands when [Ss](\d+):?\s*[Ee](\d+) matches s from i, else 0
EpisodeAt(s, i) ==
    IF i <= Len(s) /\ s[i] \in { "S", "s" } /\ DigitRun(s, i + 1) >= 1
    THEN LET j == i + 1 + DigitRun(s, i + 1)
             k == SkipSpaces(s, IF j <= Len(s) /\ s[j] = ":" THEN j + 1 ELSE j)
         IN  IF k <= Len(s) /\ s[k] \in { "E", "e" } /\ DigitRun(s, k + 1) >= 1
             THEN k ELSE 0
    ELSE 0

\* %02s
Pad2(d) == IF Len(d) < 2 THEN << "0" >> \o d ELSE d

\* the episode label after the season/episode pattern: Sprintf("S%02sE%02s")
\* of the leftmost match, the label itself when nothing matches
NormalizeEpisode(e) ==
    IF \E i \in 1..Len(e) : EpisodeAt(e, i) # 0
    THEN LET i == CHOOSE a \in 1..Len(e) :
                    EpisodeAt(e, a) # 0 /\ \A b \in 1..(a - 1) : EpisodeAt(e, b) = 0
             k == EpisodeAt(e, i)
         IN  << "S" >> \o Pad2(SubSeq(e, i + 1, i + DigitRun(e, i + 1)))
             \o << "E" >> \o Pad2(SubSeq(e, k + 1, k + DigitRun(e, k + 1)))
    ELSE e

\* parseDate of the Netflix driver: the layouts of the importer, after TrimSpace
NetflixScraper_parseDate(x) == parseDate(TrimSpace(x))

NetflixScraper_estimateDuration(title, episodeInfo) ==
    IF episodeInfo # <<>> THEN 40 ELSE 105

\* parseViewingActivityRow: the record of a rendered row, or an error for a
\* date that does not parse
parseViewingActivityRow(row) ==
    LET d == NetflixScraper_parseDate(row.date)
        parts == SplitN2(row.title)
        title == IF Len(parts) = 2 THEN TrimSpace(parts[1]) ELSE TrimSpace(row.title)
        episodeInfo == IF Len(parts) = 2 THEN NormalizeEpisode(TrimSpace(parts[2])) ELSE <<>>
    IN  [ err |-> ~d.ok,
          item |-> WatchHistory(0, title, episodeInfo,
                                NetflixScraper_estimateDuration(title, episodeInfo), d.t) ]

\* the title and the episode label the pagination loop asks the store for
NetflixExistenceQuery(row) ==
    LET t == TrimSpace(row.title)
        parts == SplitN2(t)
    IN  IF Len(parts) = 2
        THEN [ title |-> TrimSpace(parts[1]), episodeInfo |-> TrimSpace(parts[2]) ]
        ELSE [ title |-> t, episodeInfo |-> <<>> ]

\* targetYear of the Netflix pagination loop
targetYear == 2025

\* serviceID of the Netflix pagination loop
NetflixServiceID == 1

(***************************************************************************)
(* The YouTube TV driver: dates, and what it makes of a rendered item of   *)
(* the activity page. A rendered item is [ title, label, dateHeader,       *)
(* timeText ]: the text of its a.l8sGWb, span.hJ7x8b and div.wlgrwd        *)
(* elements and of the .rp10kf header before it. Texts are tuples of       *)
(* tokens: words, numerals and the characters between them.                *)
(***************************************************************************)
\* time.Now(): << year, month, day, hour, minute >>
Now == << 2025, 10, 28, 12, 0 >>

\* the words of the texts: << word, number of letters, its last three letters >>
Words ==
    { << "A", 1, "" >>, << "B", 1, "" >>, << "TV", 2, "" >>, << "AM", 2, "" >>,
      << "PM", 2, "" >>, << "Oct", 3, "Oct" >>, << "Dec", 3, "Dec" >>,
      << "October", 7, "ber" >>, << "YouTube", 7, "ube" >>, << "Details", 7, "ils" >>,
      << "Other", 5, "her" >>, << "Today", 5, "day" >>, << "Yesterday", 9, "day" >>,
      << "Jan", 3, "Jan" >>, << "January", 7, "ary" >>, << "December", 8, "ber" >> }

IsWord(tok) == \E w \in Words : w[1] = tok
Letters(tok) == (CHOOSE w \in Words : w[1] = tok)[2]
Last3(tok) == (CHOOSE w \in Words : w[1] = tok)[3]

\* \d{1,2} at the head of a numeral: its first two digits
Lead2(tok) == IF Digits(tok) <= 2 THEN Val(tok) ELSE Val(tok) \div 100

\* the day before << y, m, d >>
PrevDay(y, m, d) ==
    IF d > 1 THEN << y, m, d - 1 >>
    ELSE IF m > 1 THEN << y, m - 1, DaysIn(y, m - 1) >>
    ELSE << y - 1, 12, 31 >>

\* time.Date(y, m, d, ...) for a day from 0 to the length of the month
DateOf(y, m, d) == IF d = 0 THEN PrevDay(y, m, 1) ELSE << y, m, d >>

\* a.After(b), for << year, month, day, hour, minute >>
RECURSIVE After(_, _)
After(a, b) ==
    IF a = <<>> \/ b = <<>> THEN FALSE
    ELSE IF Head(a) # Head(b) THEN Head(a) > Head(b)
    ELSE After(Tail(a), Tail(b))

\* whether (\d{1,2}):(\d{2})\s*(AM|PM) matches x from token i
TimeAt(x, i) ==
    /\ i + 3 <= Len(x)
    /\ IsNum(x[i]) /\ Digits(x[i]) <= 2
    /\ x[i + 1] = ":"
    /\ IsNum(x[i + 2]) /\ Digits(x[i + 2]) = 2
    /\ SkipSpaces(x, i + 3) <= Len(x)
    /\ x[SkipSpaces(x, i + 3)] \in { "AM", "PM" }

\* the hour on the 24-hour clock
Hour24(hour, ap) ==
    IF ap = "PM" /\ hour # 12 THEN hour + 12
    ELSE IF ap = "AM" /\ hour = 12 THEN 0
    ELSE hour

\* FindStringSubmatch of the time pattern: the leftmost match
FindTime(x) ==
    IF \E i \in 1..Len(x) : TimeAt(x, i)
    THEN LET i == CHOOSE a \in 1..Len(x) : TimeAt(x, a) /\ \A b \in 1..(a - 1) : ~TimeAt(x, b)
         IN  [ ok |-> TRUE, hour |-> Hour24(Val(x[i]), x[SkipSpaces(x, i + 3)]),
               minute |-> Val(x[i + 2]) ]
    ELSE [ ok |-> FALSE, hour |-> 20, minute |-> 0 ]

\* whether a run of at least n letters, spaces and a numeral stand at token i
MonthDayAt(x, i, n) ==
    /\ i + 2 <= Len(x)
    /\ IsWord(x[i]) /\ Letters(x[i]) >= n
    /\ x[i + 1] = " "
    /\ SkipSpaces(x, i + 1) <= Len(x)
    /\ IsNum(x[SkipSpaces(x, i + 1)])

\* the year of a month and a day that carry none: this year, last year when
\* the day would be after now
InferYear(m, d) ==
    IF After(<< Now[1], m, d, 0, 0 >>, Now) THEN Now[1] - 1 ELSE Now[1]

NoTime == [ ok |-> FALSE, t |-> << 1, 1, 1, 0, 0 >> ]

\* parseDate of the YouTube TV driver, applied by the pagination loop to the
\* text of the last rendered item; monthMap knows the three-letter names
YouTubeTVScraper_parseDate(x) ==
    LET tm == FindTime(x)
        yd == PrevDay(Now[1], Now[2], Now[3])
    IN  IF Contains(x, "Yesterday")
        THEN [ ok |-> TRUE, t |-> yd \o << tm.hour, tm.minute >> ]
        ELSE IF Contains(x, "Today")
        THEN [ ok |-> TRUE, t |-> << Now[1], Now[2], Now[3], tm.hour, tm.minute >> ]
        ELSE IF \E i \in 1..Len(x) : MonthDayAt(x, i, 3)
        THEN LET i == CHOOSE a \in 1..Len(x) :
                        MonthDayAt(x, a, 3) /\ \A b \in 1..(a - 1) : ~MonthDayAt(x, b, 3)
                 day == Lead2(x[SkipSpaces(x, i + 1)])
             IN  IF \E mo \in Months : mo[2] = Last3(x[i])
                 THEN LET m == (CHOOSE mo \in Months : mo[2] = Last3(x[i]))[3]
                      IN  [ ok |-> TRUE,
                            t |-> DateOf(InferYear(m, day), m, day)
                                  \o << tm.hour, tm.minute >> ]
                 ELSE NoTime
        ELSE NoTime

\* parseDateAndTime: the date header and the time of an item; monthMap knows
\* the long and the three-letter names
parseDateAndTime(dateHeader, timeStr) ==
    LET tm == FindTime(timeStr)
        dh == TrimSpace(dateHeader)
        yd == PrevDay(Now[1], Now[2], Now[3])
    IN  IF ~tm.ok THEN NoTime
        ELSE IF dh = << "Yesterday" >>
        THEN [ ok |-> TRUE, t |-> yd \o << tm.hour, tm.minute >> ]
        ELSE IF dh = << "Today" >>
        THEN [ ok |-> TRUE, t |-> << Now[1], Now[2], Now[3], tm.hour, tm.minute >> ]
        ELSE IF \E i \in 1..Len(dh) : MonthDayAt(dh, i, 1)
        THEN LET i == CHOOSE a \in 1..Len(dh) :
                        MonthDayAt(dh, a, 1) /\ \A b \in 1..(a - 1) : ~MonthDayAt(dh, b, 1)
                 day == Lead2(dh[SkipSpaces(dh, i + 1)])
             IN  IF \E mo \in Months : dh[i] \in { mo[1], mo[2] }
                 THEN LET m == (CHOOSE mo \in Months : dh[i] \in { mo[1], mo[2] })[3]
                      IN  [ ok |-> TRUE,
                            t |-> DateOf(InferYear(m, day), m, day)
                                  \o << tm.hour, tm.minute >> ]
                 ELSE NoTime
        ELSE NoTime

YouTubeTVScraper_estimateDuration(title, episodeInfo) ==
    IF episodeInfo # <<>> THEN 45 ELSE 60

\* timeText before its bullet (U+2022), the token "bullet"
TimePart(timeText) ==
    IF IndexOf(timeText, "bullet") > 1
    THEN TrimSpace(SubSeq(timeText, 1, IndexOf(timeText, "bullet") - 1))
    ELSE timeText

\* extractHistoryItem: the record of a rendered item, or an error for an item
\* with no title, with a label that names no platform, or whose platform the
\* services table does not hold
extractHistoryItem(it) ==
    LET platformLabel == TrimSpace(it.label)
        serviceName == IF platformLabel = << "YouTube", " ", "TV" >> THEN "YouTube TV"
                       ELSE IF platformLabel = << "YouTube" >> THEN "YouTube"
                       ELSE ""
        serviceID == GetServiceByName(serviceName)
        timePart == TimePart(it.timeText)
        parsed == parseDateAndTime(it.dateHeader, timePart)
        watchedAt == IF it.dateHeader # <<>> /\ timePart # <<>> /\ parsed.ok
                     THEN parsed.t ELSE Now
    IN  [ err |-> it.title = <<>> \/ serviceName = "" \/ serviceID = 0,
          item |-> WatchHistory(serviceID, TrimSpace(it.title), platformLabel,
                                YouTubeTVScraper_estimateDuration(it.title, <<>>),
                                watchedAt) ]

(***************************************************************************)
(* The Amazon Video driver: the date of a section header.                  *)
(***************************************************************************)
\* strings.ToLower, token by token
ToLower(s) ==
    [ i \in 1..Len(s) |->
        CASE s[i] \in { "Today", "TODAY" } -> "today"
          [] s[i] \in { "Yesterday", "YESTERDAY" } -> "yesterday"
          [] OTHER -> s[i] ]

\* layouts "January 2" (col = 1) and "Jan 2" (col = 2): time.Parse gives the
\* year 0, parseAmazonDate puts the year of now in its place
ParseMonthDay(x, col) ==
    IF /\ Len(x) = 3 /\ x[2] = " "
       /\ \E mo \in Months : mo[col] = x[1]
       /\ IsNum(x[3]) /\ Digits(x[3]) <= 2
       /\ ValidDate(0, (CHOOSE mo \in Months : mo[col] = x[1])[3], Val(x[3]))
    THEN [ ok |-> TRUE,
           t |-> DateOf(Now[1], (CHOOSE mo \in Months : mo[col] = x[1])[3], Val(x[3])) ]
    ELSE NoDate

\* parseAmazonDate: "today" and "yesterday" in any case, then the first of
\* six layouts that parses the text
parseAmazonDate(dateStr) ==
    LET x == TrimSpace(dateStr)
    IN  IF ToLower(x) = << "today" >>
        THEN [ ok |-> TRUE, t |-> << Now[1], Now[2], Now[3] >> ]
        ELSE IF ToLower(x) = << "yesterday" >>
        THEN [ ok |-> TRUE, t |-> PrevDay(Now[1], Now[2], Now[3]) ]
        ELSE FirstOk(<< ParseMonthName(x, 1), ParseMonthName(x, 2), ParseMDYYYY(x),
                        ParseISO(x), ParseMonthDay(x, 1), ParseMonthDay(x, 2) >>)

\* textContent of a rendered item, as the pagination loop reads it: the texts
\* of its elements, a space between them
ItemText(it) == TrimSpace(it.title \o << " " >> \o it.label \o << " " >> \o it.timeText)

\* maxClicks of the YouTube TV pagination loop
maxClicks == 200

(***************************************************************************)
(* Two writers on one store: the store loop of Manager.Run and the row     *)
(* loop of the importer. Each database statement is atomic; the writers    *)
(* interleave between statements.                                          *)
(***************************************************************************)
\* the most records one writer writes
MaxWrites == 2

Jan16 == << 2025, 1, 16 >>

\* records as the writers hand them to the store: one title on two days, two
\* titles on one day, one title on two services
WriterItems ==
    { WatchHistory(1, <<"A">>, <<>>, 105, Jan15), WatchHistory(1, <<"A">>, <<"e">>, 40, Jan16),
      WatchHistory(1, <<"B">>, <<>>, 105, Jan15), WatchHistory(2, <<"A">>, <<>>, 60, Jan15) }

\* the stores the writers can find: empty, or with an older row under the key
\* of some of the records
WriterStores ==
    { {}, { Row(WatchHistory(1, <<"A">>, <<"old">>, 1, Jan15)) },
      { Row(WatchHistory(1, <<"A">>, <<"e">>, 1, Jan16)),
        Row(WatchHistory(2, <<"A">>, <<>>, 1, Jan15)) } }

\* the store after one write of a writer. "run": the store loop of Manager.Run,
\* a failed insert is logged and skipped. "import": processRow from its check
\* for an existing entry on, an entry found is left as it is.
WriterStep(st, kind, wh, chk, ins) ==
    IF kind = "import"
    THEN IF chk /\ ~WatchHistoryExists(st, wh.ServiceID, wh.Title, wh.EpisodeInfo,
                                       wh.WatchedAt) /\ ins
         THEN InsertWatchHistory(st, wh)
         ELSE st
    ELSE IF ins THEN InsertWatchHistory(st, wh) ELSE st

\* the store after the writes of a log, one after the other
RECURSIVE Replay(_, _)
Replay(st, log) ==
    IF log = <<>> THEN st
    ELSE Replay(WriterStep(st, log[1].kind, log[1].wh, log[1].chk, log[1].ins),
                Tail(log))

\* the writes of writer w in a log
RECURSIVE WritesOf(_, _)
WritesOf(log, w) ==
    IF log = <<>> THEN <<>>
    ELSE IF log[1].w = w THEN << log[1] >> \o WritesOf(Tail(log), w)
    ELSE WritesOf(Tail(log), w)

(***************************************************************************)
(* Scrape of the three drivers: the configuration it reads and the browser *)
(* actions it issues.                                                      *)
(***************************************************************************)
\* the most cookies a service is configured with
MaxCookies == 2

ScrapeDrivers == { "Netflix", "YouTube TV", "Amazon Video" }

\* the key of a driver in config.Services
ConfigKey(d) ==
    CASE d = "Netflix" -> "netflix"
      [] d = "YouTube TV" -> "youtube_tv"
      [] d = "Amazon Video" -> "amazon_video"

\* the site a driver's loadCookies opens first
HomeURL(d) ==
    CASE d = "Netflix" -> "https://www.netflix.com"
      [] d = "YouTube TV" -> "https://myactivity.google.com"
      [] d = "Amazon Video" -> "https://www.amazon.com"

\* the domains a driver's loadCookies sets every cookie on
CookieDomains(d) ==
    CASE d = "Netflix" -> << ".netflix.com" >>
      [] d = "YouTube TV" -> << ".google.com", ".accounts.google.com" >>
      [] d = "Amazon Video" -> << ".amazon.com" >>

CookieNames == { "SID", "APISID" }

\* config.Services[key]: no entry, or Enabled and the Cookies of the entry
ServiceConfigs ==
    { [ present |-> FALSE, Enabled |-> FALSE, Cookies |-> << >> ] }
    \cup { [ present |-> TRUE, Enabled |-> e, Cookies |-> c ] :
             e \in BOOLEAN, c \in SeqsUpTo(CookieNames, MaxCookies) }

ErrNotConfigured(d) == << ConfigKey(d), " not configured or not enabled" >>
ErrNoCookies == << "failed to load cookies: ", "no cookies provided" >>
ErrLoadCookies == << "failed to load cookies: ", "chromedp" >>
ErrScrapeNavigation == << "navigation failed: ", "chromedp" >>
ErrExtraction == << "extraction failed: ", "chromedp" >>

\* the errors that tell of the configuration
ConfigErrors == { ErrNotConfigured(d) : d \in ScrapeDrivers } \cup { ErrNoCookies }

NoScrape ==
    [ pc |-> "none", drv |-> "", cfg |-> [ present |-> FALSE, Enabled |-> FALSE,
                                           Cookies |-> << >> ],
      browser |-> << >>, err |-> << >>, accepted |-> 0 ]

\* the SetCookie actions of loadCookies, in the order of its loops
RECURSIVE SetCookies(_, _)
SetCookies(domains, cookies) ==
    IF domains = << >> THEN << >>
    ELSE [ i \in 1..Len(cookies) |->
             [ action |-> "SetCookie", name |-> cookies[i], domain |-> domains[1] ] ]
         \o SetCookies(Tail(domains), cookies)

\* the browser actions loadCookies issues when none fails
LoadCookiesActions(d, cookies) ==
    << [ action |-> "Navigate", url |-> HomeURL(d) ] >>
    \o SetCookies(CookieDomains(d), cookies)

(***************************************************************************)
(* The manual trigger endpoint, POST /api/scrape/{service}.                *)
(***************************************************************************)
\* the {service} values of the requests: the three names of drivers, a name
\* already in database form, a name of no service
TriggerNames == { "netflix", "youtube_tv", "amazon_video", "Netflix", "nosuch" }

\* capitalizeServiceName: the database form of a service name of the URL
capitalizeServiceName(name) ==
    CASE name = "netflix" -> "Netflix"
      [] name = "youtube_tv" -> "YouTube TV"
      [] name = "amazon_video" -> "Amazon Video"
      [] name = "hbo_max" -> "HBO Max"
      [] name = "apple_tv" -> "Apple TV+"
      [] name = "peacock" -> "Peacock"
      [] OTHER -> name

StatusAccepted == 202

\* no request in hand, no goroutine
NoRequest ==
    [ state |-> "idle", service |-> "", goroutine |-> "none", code |-> 0,
      body |-> [ message |-> "", service |-> "", status |-> "" ],
      runAtResponse |-> "none" ]

(***************************************************************************)
(* Pages and the store an earlier run left.                                *)
(***************************************************************************)
\* the item as Run stores it: ServiceID is set only when the driver left it 0
WithServiceID(item, sid) ==
    IF item.ServiceID = 0 THEN [ item EXCEPT !.ServiceID = sid ] ELSE item

\* the records a driver extracts from the rendered items: items whose
\* extraction fails are left out
RECURSIVE Extracted(_, _)
Extracted(drv, rendered) ==
    IF rendered = <<>> THEN <<>>
    ELSE LET x == IF drv = "Netflix" THEN parseViewingActivityRow(Head(rendered))
                  ELSE extractHistoryItem(Head(rendered))
         IN  (IF x.err THEN <<>> ELSE << x.item >>) \o Extracted(drv, Tail(rendered))

\* the store after the store loop of Run has upserted every item
RECURSIVE StoreAll(_, _, _)
StoreAll(st, its, sid) ==
    IF its = <<>> THEN st
    ELSE StoreAll(InsertWatchHistory(st, WithServiceID(Head(its), sid)), Tail(its), sid)

\* whether the store holds the record the driver extracts from a rendered
\* item, as Run stored it for the platform sid
Stored(st, drv, it, sid) ==
    LET x == Extracted(drv, << it >>)
    IN  x # <<>> /\ Row(WithServiceID(x[1], sid)) \in st

\* rendered rows of the Netflix page: a film, an episode numbered S1:E5, an
\* episode with a name, a film watched in 2024
NetflixRows ==
    { [ title |-> << "A" >>, date |-> << "1", "/", "15", "/", "25" >> ],
      [ title |-> << "B", ":", " ", "S", "1", ":", "E", "5" >>,
        date |-> << "1", "/", "15", "/", "25" >> ],
      [ title |-> << "C", ":", " ", "p" >>, date |-> << "1", "/", "15", "/", "25" >> ],
      [ title |-> << "A" >>, date |-> << "1", "/", "15", "/", "24" >> ] }

YouTubeTimeText == << "6", ":", "00", " ", "PM", " ", "bullet", " ", "Details" >>

\* rendered items of the activity page: a YouTube TV item, one whose title is
\* a month and a day, an item of YouTube
YouTubeItems ==
    { [ title |-> << "A" >>, label |-> << "YouTube", " ", "TV" >>,
        dateHeader |-> << "Oct", " ", "27" >>, timeText |-> YouTubeTimeText ],
      [ title |-> << "Oct", " ", "27" >>, label |-> << "YouTube", " ", "TV" >>,
        dateHeader |-> << "Oct", " ", "27" >>, timeText |-> YouTubeTimeText ],
      [ title |-> << "B" >>, label |-> << "YouTube" >>,
        dateHeader |-> << "Oct", " ", "27" >>, timeText |-> YouTubeTimeText ] }

\* The pages. feed is what the page can render, newest first; mirror is whether
\* the page holds a ytd-video-renderer element for each item, with the
\* item's title in its #video-title; testMode is Scraper.TestMode.
Pages(drv) ==
    IF drv = "Netflix"
    THEN { [ feed |-> f, mirror |-> FALSE, testMode |-> FALSE ] :
             f \in SeqsUpTo(NetflixRows, MaxFeed) }
    ELSE { [ feed |-> f, mirror |-> m, testMode |-> t ] :
             f \in SeqsUpTo(YouTubeItems, MaxFeed), m \in BOOLEAN, t \in BOOLEAN }

\* rendered items of an activity page that reaches back into last year: a
\* YouTube TV item, and one whose text names the last day of December
YouTubeOldItems ==
    { [ title |-> << "A" >>, label |-> << "YouTube", " ", "TV" >>,
        dateHeader |-> << "Oct", " ", "27" >>, timeText |-> YouTubeTimeText ],
      [ title |-> << "Dec", " ", "31" >>, label |-> << "YouTube", " ", "TV" >>,
        dateHeader |-> << "Dec", " ", "31" >>, timeText |-> YouTubeTimeText ] }

\* the pages of a history that reaches below the cutoff year
OldPages(drv) ==
    IF drv = "Netflix"
    THEN Pages(drv)
    ELSE { [ feed |-> f, mirror |-> m, testMode |-> t ] :
             f \in SeqsUpTo(YouTubeOldItems, MaxFeed), m \in BOOLEAN, t \in BOOLEAN }

\* rendered rows of a Netflix page with gaps: a full row, a row whose .title
\* element holds no text, a row whose .date text is no date
RaggedNetflixRows ==
    { [ title |-> << "A" >>, date |-> << "1", "/", "15", "/", "25" >> ],
      [ title |-> << >>, date |-> << "1", "/", "15", "/", "25" >> ],
      [ title |-> << "B" >>, date |-> << "Other" >> ] }

\* rendered items of an activity page with gaps: a full item, an item with no
\* title, an item under a header that is no date
RaggedYouTubeItems ==
    { [ title |-> << "A" >>, label |-> << "YouTube", " ", "TV" >>,
        dateHeader |-> << "Oct", " ", "27" >>, timeText |-> YouTubeTimeText ],
      [ title |-> << >>, label |-> << "YouTube", " ", "TV" >>,
        dateHeader |-> << "Oct", " ", "27" >>, timeText |-> YouTubeTimeText ],
      [ title |-> << "B" >>, label |-> << "YouTube", " ", "TV" >>,
        dateHeader |-> << "Other" >>, timeText |-> YouTubeTimeText ] }

\* the pages with gaps
RaggedPages(drv) ==
    IF drv = "Netflix"
    THEN { [ feed |-> f, mirror |-> FALSE, testMode |-> FALSE ] :
             f \in SeqsUpTo(RaggedNetflixRows, MaxFeed) }
    ELSE { [ feed |-> f, mirror |-> m, testMode |-> t ] :
             f \in SeqsUpTo(RaggedYouTubeItems, MaxFeed), m \in BOOLEAN, t \in BOOLEAN }

NoPage == [ feed |-> <<>>, mirror |-> FALSE, testMode |-> FALSE ]

Min(a, b) == IF a < b THEN a ELSE b

(***************************************************************************)
(* Overlapping scrapes of the shared feed on one driver instance.          *)
(***************************************************************************)
\* the most items each of two overlapping extractions goes through
MaxOverlapItems == 2

\* a call that is not running
IdleCall == [ pc |-> "idle", todo |-> << >>, out |-> << >> ]

\* the driver after NewYouTubeTVScraper: an empty serviceIDCache, no call
NoOverlap == [ cache |-> {}, calls |-> << IdleCall, IdleCall >>, crashed |-> FALSE ]

\* the platform name extractHistoryItem reads from the label of an item, ""
\* for a label that names none
LabelServiceName(it) ==
    IF TrimSpace(it.label) = << "YouTube", " ", "TV" >> THEN "YouTube TV"
    ELSE IF TrimSpace(it.label) = << "YouTube" >> THEN "YouTube"
    ELSE ""

VARIABLES
    store,      \* the rows of watch_history
    runLog,     \* the rows of scraper_runs that the Run invocation in progress (or
                \* the last one to return) appended, oldest first; the pipeline never
                \* reads, changes or deletes a row of scraper_runs, and the rows of
                \* earlier invocations are left out of the state
    scrapers,   \* Manager.scrapers: the registered names
    pc,         \* where the calling goroutine is
    caller,     \* who called Manager.Run: "api" or "runAll"
    pending,    \* RunAll: the names its range loop has not visited yet
    results,    \* RunAll: the results appended so far
    svcName,    \* Run: serviceName
    service,    \* Run: service.ID
    items,      \* Run: what Scrape returned
    idx,        \* Run: the index i of the store loop, from 1
    result,     \* Run: *result
    retErr,     \* Run: the error Run returns, "" for nil
    g,          \* what the current Run invocation did, for the properties
    lastIns,    \* the last InsertWatchHistory call, for the properties
    prev,       \* the previous completed top-level operation, for the properties
    csvFile,    \* ImportCSV: the file read
    rowIdx,     \* ImportCSV: the next data record to read, from 1
    impResult,  \* ImportCSV: *result
    drv,        \* scrollToLoadItems: the driver paginating
    page,       \* scrollToLoadItems: the page it drives
    loaded,     \* the number of items of the feed the page has rendered
    previousCount,          \* scrollToLoadItems: previousCount
    stableCountIterations,  \* scrollToLoadItems: stableCountIterations
    clickCount, \* scrollToLoadItems: clickCount (Netflix: modulo 10, all the loop
                \* reads of it)
    expired,    \* whether the deadline of ctx has passed
    halt,       \* why the pagination loop ended, "" while it runs
    missed,     \* an iteration met a stored last item and did not end the loop
    late,       \* an iteration began after the deadline had passed
    http,       \* triggerScrape: the request in hand, the goroutine it started
                \* and the response written
    writers,    \* two concurrent writers: of each, its kind and the records it
                \* has still to write
    wlog,       \* the writes done, in the order they reached the database
    store0,     \* the store when the writers began
    scrape,     \* Scrape of a driver: the driver, its configuration, where the
                \* call is, the browser actions issued, what it returned
    enrich,     \* the last call of processRow: the row, what TMDB answered to
                \* the requests of SearchTitle, what processRow returned
    dates,      \* the last call of parseDate: the text, the date it was
                \* formatted from and the layout, what parseDate returned
    overlap     \* two overlapping Scrape calls on the one YouTube TV driver:
                \* serviceIDCache of the driver, where each call is, whether
                \* the runtime has ended the process

vars == << store, runLog, scrapers, pc, caller, pending, results, svcName, service,
           items, idx, result, retErr, g, lastIns, prev,
           csvFile, rowIdx, impResult, drv, page, loaded, previousCount,
           stableCountIterations, clickCount, expired, halt, missed, late, http,
           writers, wlog, store0, scrape, enrich, dates, overlap >>

wrVars == << writers, wlog, store0 >>

\* of these, all but the variable of one function
httpOthers == << wrVars, scrape, enrich, dates, overlap >>
wrOthers == << http, scrape, enrich, dates, overlap >>
scrapeOthers == << http, wrVars, enrich, dates, overlap >>
enrichOthers == << http, wrVars, scrape, dates, overlap >>
datesOthers == << http, wrVars, scrape, enrich, overlap >>
overlapOthers == << http, wrVars, scrape, enrich, dates >>

\* the variables of the handlers and functions outside the manager, the
\* importer and the pagination loops
extVars == << http, wrVars, scrape, enrich, dates, overlap >>

impVars == << csvFile, rowIdx, impResult >>

pgVars == << drv, page, loaded, previousCount, stableCountIterations, clickCount,
             expired, halt, missed, late >>

runVars == << svcName, service, items, idx, result, retErr >>


\* the record of one Run invocation: the batch Scrape returned, whether the
\* invocation failed (registry, lookup or driver), the inserts tried and done,
\* the calls of InsertScraperRun, the store at entry
NewG(st) ==
    [ batch |-> <<>>, scraped |-> FALSE, failed |-> FALSE, cause |-> "",
      attempts |-> 0, persisted |-> 0, logCalls |-> 0, storeAtStart |-> st ]

NoWriters ==
    /\ writers = << >>
    /\ wlog = << >>
    /\ store0 = {}

\* the manager and the importer after construction
InitMgr ==
    /\ runLog = <<>>
    /\ scrapers = MainScrapers
    /\ caller = "api"
    /\ pending = {}
    /\ results = <<>>
    /\ svcName = ""
    /\ service = 0
    /\ items = <<>>
    /\ idx = 1
    /\ result = NilResult
    /\ retErr = ""
    /\ g = NewG({})
    /\ lastIns = NoIns
    /\ prev = NoPrev
    /\ csvFile = [ header |-> <<>>, rows |-> <<>> ]
    /\ rowIdx = 1
    /\ impResult = NewImportResult
    /\ previousCount = 0
    /\ stableCountIterations = 0
    /\ clickCount = 0
    /\ expired = FALSE
    /\ halt = ""
    /\ missed = FALSE
    /\ late = FALSE

\* the state after construction, but for store and pc
InitRest ==
    /\ InitMgr
    /\ http = NoRequest
    /\ NoWriters
    /\ scrape = NoScrape
    /\ enrich = NoEnrich
    /\ dates = NoParse
    /\ overlap = NoOverlap

NoPagination ==
    /\ drv = ""
    /\ page = NoPage
    /\ loaded = 0

Init ==
    /\ store = {}
    /\ pc = "idle"
    /\ InitRest
    /\ NoPagination

(***************************************************************************)
(* Manager.Register                                                        *)
(***************************************************************************)
Register(name) ==
    /\ pc = "idle"
    /\ name \notin scrapers
    /\ scrapers' = scrapers \cup { name }
    /\ UNCHANGED << store, runLog, pc, caller, pending, results, runVars, g, lastIns,
                    prev , impVars, extVars,
                    pgVars >>

(***************************************************************************)
(* Manager.Run, in the steps of its calls to the store and to the driver.  *)
(***************************************************************************)
\* Run returns early with (r, err): no driver call, no store call
EarlyReturn(r, err, cause) ==
    /\ result' = r
    /\ retErr' = err
    /\ service' = 0
    /\ g' = [ NewG(store) EXCEPT !.failed = TRUE, !.cause = cause ]
    /\ pc' = "run_ret"

\* Entry of Run: the registry lookup, the Result, GetServiceByName and the
\* early returns. lookup is whether the services query succeeded.
RunEnter(name, by, lookup) ==
    /\ runLog' = <<>>
    /\ caller' = by
    /\ svcName' = name
    /\ items' = <<>>
    /\ idx' = 1
    /\ IF name \notin scrapers
       THEN EarlyReturn(NilResult, ErrScraperNotFound, "registry")
       ELSE IF ~lookup
       THEN EarlyReturn([ NewResult(name) EXCEPT !.Error = ErrDatabase ],
                        ErrDatabase, "lookup")
       ELSE IF GetServiceByName(name) = 0
       THEN EarlyReturn([ NewResult(name) EXCEPT !.Error = ErrServiceNotFound ],
                        ErrServiceNotFound, "absent")
       ELSE /\ result' = NewResult(name)
            /\ retErr' = ""
            /\ service' = GetServiceByName(name)
            /\ g' = NewG(store)
            /\ pc' = "scrape"

\* a call of Manager.Run from outside (the trigger handler, a test)
Run(name) ==
    /\ pc = "idle"
    /\ \E lookup \in BOOLEAN : RunEnter(name, "api", lookup)
    /\ UNCHANGED << store, scrapers, pending, results, lastIns, prev , impVars, extVars,
                    pgVars >>

\* a slip: the failed run is written with the success status and no message
FailedRunWrongStatus(sid, err) == ScraperRun(sid, "success", "", 0)

\* the ScraperRun a failed run records
FailedRun(sid, err) == ScraperRun(sid, "failed", err, 0)

\* items, err := scraper.Scrape(ctx), and the failure branch of Run when err is
\* not nil; logOk is whether the INSERT of InsertScraperRun succeeded
RunScrape ==
    /\ pc = "scrape"
    /\ \/ \E err \in DriverErrors, logOk \in BOOLEAN :
            /\ result' = [ result EXCEPT !.Error = err, !.Success = FALSE ]
            /\ runLog' = InsertScraperRun(runLog, FailedRun(service, err), logOk)
            /\ retErr' = err
            /\ g' = [ g EXCEPT !.failed = TRUE, !.cause = "driver", !.logCalls = @ + 1 ]
            /\ pc' = "run_ret"
            /\ UNCHANGED << items, idx >>
       \/ \E b \in Batches :
            /\ items' = b
            /\ idx' = 1
            /\ g' = [ g EXCEPT !.batch = b, !.scraped = TRUE ]
            /\ pc' = "store"
            /\ UNCHANGED << result, runLog, retErr >>
    /\ UNCHANGED << store, scrapers, caller, pending, results, svcName, service,
                    lastIns, prev , impVars, extVars,
                    pgVars >>

\* a slip: a failed insert ends the store loop
NextIndexAbort(i, n, ok) == IF ok THEN i + 1 ELSE n + 1

\* the store loop's next index after item i of n: a failed insert is skipped
\* with continue
NextIndex(i, n, ok) == i + 1

\* one iteration of the store loop; ok is whether InsertWatchHistory succeeded
RunStoreItem ==
    /\ pc = "store"
    /\ idx <= Len(items)
    /\ \E ok \in BOOLEAN :
         LET wh == WithServiceID(items[idx], service) IN
         /\ items' = [ items EXCEPT ![idx] = wh ]
         /\ store' = IF ok THEN InsertWatchHistory(store, wh) ELSE store
         /\ lastIns' = [ done |-> ok, wh |-> wh, existed |-> Conflicts(store, wh) # {},
                         before |-> Cardinality(store) ]
         /\ idx' = NextIndex(idx, Len(items), ok)
         /\ g' = [ g EXCEPT !.attempts = @ + 1,
                            !.persisted = IF ok THEN @ + 1 ELSE @ ]
    /\ UNCHANGED << runLog, scrapers, pc, caller, pending, results, svcName, service,
                    result, retErr, prev , impVars, extVars,
                    pgVars >>

\* result.ItemsScraped and ScraperRun.ItemsScraped of a successful run: the
\* length of the list the driver returned
ItemsScraped(its, persisted) == Len(its)

\* after the store loop: the success ScraperRun and the return
RunRecordSuccess ==
    /\ pc = "store"
    /\ idx > Len(items)
    /\ \E logOk \in BOOLEAN :
         runLog' = InsertScraperRun(runLog,
                      ScraperRun(service, "success", "", ItemsScraped(items, g.persisted)),
                      logOk)
    /\ result' = [ result EXCEPT !.ItemsScraped = ItemsScraped(items, g.persisted),
                                 !.Success = TRUE ]
    /\ retErr' = ""
    /\ g' = [ g EXCEPT !.logCalls = @ + 1 ]
    /\ pc' = "run_ret"
    /\ UNCHANGED << store, scrapers, caller, pending, results, svcName, service, items,
                    idx, lastIns, prev , impVars, extVars,
                    pgVars >>

\* a slip: RunAll drops the result of a run that returned an error
CollectSkipFailed(rs, r, err) == IF err # "" THEN rs ELSE Append(rs, r)

\* RunAll's results after a Run returned (r, err): appended on both branches
Collect(rs, r, err) == Append(rs, r)

\* Run returns to its caller; its locals end with it. hist is whether the
\* history variable prev records the run.
RunReturnHist(hist) ==
    /\ pc = "run_ret"
    /\ IF caller = "runAll"
       THEN /\ results' = Collect(results, result, retErr)
            /\ prev' = [ prev EXCEPT !.failed = IF g.failed THEN @ \cup { svcName } ELSE @ ]
            /\ pc' = "runall_loop"
       ELSE /\ pc' = "idle"
            /\ prev' = IF g.scraped /\ hist
                       THEN [ op |-> "Run", name |-> svcName, batch |-> g.batch,
                              clean |-> g.persisted = Len(g.batch),
                              count |-> Cardinality(store) ]
                       ELSE NoPrev
            /\ UNCHANGED results
    /\ svcName' = ""
    /\ service' = 0
    /\ items' = <<>>
    /\ idx' = 1
    /\ result' = NilResult
    /\ retErr' = ""
    /\ g' = NewG({})
    /\ lastIns' = NoIns
    /\ UNCHANGED << store, runLog, scrapers, caller, pending , impVars, extVars,
                    pgVars >>

RunReturn == RunReturnHist(TRUE)

(***************************************************************************)
(* Manager.RunAll                                                          *)
(***************************************************************************)
RunAllBegin ==
    /\ pc = "idle"
    /\ results' = <<>>
    /\ pending' = scrapers
    /\ prev' = [ op |-> "RunAll", drivers |-> scrapers, failed |-> {},
                 returned |-> FALSE, err |-> "" ]
    /\ pc' = "runall_loop"
    /\ UNCHANGED << store, runLog, scrapers, caller, runVars, g, lastIns , impVars, extVars,
                    pgVars >>

\* for name := range m.scrapers: Go visits the keys of a map in no fixed order
RunAllNext ==
    /\ pc = "runall_loop"
    /\ \E name \in pending :
         /\ pending' = pending \ { name }
         /\ \E lookup \in BOOLEAN : RunEnter(name, "runAll", lookup)
    /\ UNCHANGED << store, scrapers, results, lastIns, prev , impVars, extVars,
                    pgVars >>

\* return results, nil
RunAllReturn ==
    /\ pc = "runall_loop"
    /\ pending = {}
    /\ prev' = [ prev EXCEPT !.returned = TRUE, !.err = "" ]
    /\ pc' = "idle"
    /\ UNCHANGED << store, runLog, scrapers, caller, pending, results, runVars, g,
                    lastIns , impVars, extVars,
                    pgVars >>

(***************************************************************************)
(* NetflixImporter.ImportCSV                                               *)
(***************************************************************************)
\* the header record is read and validated
ImportBegin(file) ==
    /\ pc = "idle"
    /\ csvFile' = file
    /\ rowIdx' = 1
    /\ IF Len(file.header) < 2
       THEN /\ impResult' = [ NewImportResult EXCEPT !.ErrorMessages = << "header" >> ]
            /\ pc' = "import_fail"
       ELSE /\ impResult' = NewImportResult
            /\ pc' = "import_loop"
    /\ lastIns' = NoIns
    /\ UNCHANGED << store, runLog, scrapers, caller, pending, results, runVars, g, prev,
                    pgVars, extVars >>

\* One iteration of the row loop. csv.Reader takes the number of fields of the
\* header as the number every record must have, and returns ErrFieldCount
\* for a record of another length.
ImportRow ==
    /\ pc = "import_loop"
    /\ rowIdx <= Len(csvFile.rows)
    /\ rowIdx' = rowIdx + 1
    /\ LET record == csvFile.rows[rowIdx] IN
       IF Len(record) # Len(csvFile.header)
       THEN /\ impResult' = [ impResult EXCEPT !.Errors = @ + 1,
                                 !.ErrorMessages = Append(@, "CSV read error") ]
            /\ UNCHANGED << store, lastIns >>
       ELSE IF Len(record) < 2
       THEN /\ impResult' = [ impResult EXCEPT !.TotalRows = @ + 1, !.Skipped = @ + 1 ]
            /\ UNCHANGED << store, lastIns >>
       ELSE \E tmdb \in TMDBAnswers, chk \in BOOLEAN, ins \in BOOLEAN :
              LET row == [ Title |-> TrimSpace(record[1]), Date |-> TrimSpace(record[2]) ]
                  out == processRow(store, row, tmdb, chk, ins)
              IN  /\ store' = out.store
                  /\ lastIns' = out.wh
                  /\ impResult' =
                        IF out.err # ""
                        THEN [ impResult EXCEPT !.TotalRows = @ + 1, !.Errors = @ + 1,
                                 !.ErrorMessages = Append(@, "Error processing") ]
                        ELSE [ impResult EXCEPT !.TotalRows = @ + 1, !.Imported = @ + 1 ]
    /\ UNCHANGED << runLog, scrapers, pc, caller, pending, results, runVars, g, prev,
                    csvFile,
                    pgVars, extVars >>

\* io.EOF ends the loop
ImportEOF ==
    /\ pc = "import_loop"
    /\ rowIdx > Len(csvFile.rows)
    /\ pc' = "import_ret"
    /\ UNCHANGED << store, runLog, scrapers, caller, pending, results, runVars, g,
                    lastIns, prev, impVars, extVars,
                    pgVars >>

\* ImportCSV returns: (result, nil), or (nil, error) for a header it rejects.
\* hist is whether the history variable prev records the call.
ImportReturnHist(hist) ==
    /\ pc \in { "import_ret", "import_fail" }
    /\ prev' = IF pc = "import_ret" /\ hist
               THEN [ op |-> "ImportCSV", file |-> csvFile,
                      all |-> impResult.Imported = Len(csvFile.rows) ]
               ELSE NoPrev
    /\ pc' = "idle"
    /\ csvFile' = [ header |-> <<>>, rows |-> <<>> ]
    /\ rowIdx' = 1
    /\ impResult' = NewImportResult
    /\ lastIns' = NoIns
    /\ UNCHANGED << store, runLog, scrapers, caller, pending, results, runVars, g,
                    pgVars, extVars >>

ImportReturn == ImportReturnHist(TRUE)

Next ==
    \/ \E name \in DriverNames : Register(name)
    \/ \E name \in DriverNames : Run(name)
    \/ RunScrape
    \/ RunStoreItem
    \/ RunRecordSuccess
    \/ RunReturn

Spec == Init /\ [][Next]_vars

NextRunAll ==
    \/ \E name \in DriverNames : Register(name)
    \/ RunAllBegin
    \/ RunAllNext
    \/ RunScrape
    \/ RunStoreItem
    \/ RunRecordSuccess
    \/ RunReturn
    \/ RunAllReturn

SpecRunAll == Init /\ [][NextRunAll]_vars

NextImport ==
    \/ \E file \in CsvFiles : ImportBegin(file)
    \/ ImportRow
    \/ ImportEOF
    \/ ImportReturn

SpecImport == Init /\ [][NextImport]_vars

\* runs and imports on one store, the history of the previous operation not
\* kept
NextStore ==
    \/ \E name \in DriverNames : Register(name)
    \/ \E name \in DriverNames : Run(name)
    \/ RunScrape
    \/ RunStoreItem
    \/ RunRecordSuccess
    \/ RunReturnHist(FALSE)
    \/ \E file \in CsvFiles : ImportBegin(file)
    \/ ImportRow
    \/ ImportEOF
    \/ ImportReturnHist(FALSE)

SpecStore == Init /\ [][NextStore]_vars

(***************************************************************************)
(* scrollToLoadItems of the Netflix and of the YouTube TV driver. A        *)
(* pagination starts from a page and from the store an earlier run of the  *)
(* driver left: the records of the items of the feed after the first new.  *)
(***************************************************************************)
mgrVarsOnly == << runLog, scrapers, caller, pending, results, runVars, g, lastIns, prev,
                 impVars >>

mgrVars == << mgrVarsOnly, extVars >>

InitPaginate ==
    /\ InitRest
    /\ pc = "paginate_enter"
    /\ drv \in MainScrapers
    /\ page \in Pages(drv)
    /\ loaded = Min(1, Len(page.feed))
    /\ \E new \in 0..Len(page.feed) :
         store = StoreAll({}, Extracted(drv, SubSeq(page.feed, new + 1, Len(page.feed))),
                          GetServiceByName(drv))

\* Before the loop. The YouTube TV driver looks its platform up and returns
\* the error of a failed query; lookup is whether the query succeeded.
PaginateEnter ==
    /\ pc = "paginate_enter"
    /\ \E lookup \in (IF drv = "Netflix" THEN { TRUE } ELSE BOOLEAN) :
         IF lookup
         THEN pc' = "paginate" /\ halt' = ""
         ELSE pc' = "paginated" /\ halt' = "error"
    /\ UNCHANGED << store, mgrVars, drv, page, loaded, previousCount,
                    stableCountIterations, clickCount, expired, missed, late >>

\* a slip: two iterations with an unchanged count end the loop
CountIsStableAtTwo(stable) == stable >= 2

\* the stability test of both loops: stableCountIterations >= 3
CountIsStable(stable) == stable >= 3

\* the browser calls of one iteration of the Netflix loop, in their order
NetflixSteps == << "button", "click", "count", "last" >>

\* One iteration of the Netflix loop. cut is the call before which the
\* deadline passes in this iteration (0: it does not): from then on every
\* chromedp.Run returns the error of ctx. more is how many rows a click of
\* Show More adds, chk whether the query of WatchHistoryExists succeeded.
NetflixIterate ==
    /\ pc = "paginate" /\ drv = "Netflix"
    /\ \E cut \in (IF expired THEN { 0 } ELSE 0..Len(NetflixSteps)),
          more \in 0..1, chk \in BOOLEAN :
         LET fail(k) == expired \/ (cut # 0 /\ cut <= k)
             n == Len(page.feed)
             showMoreExists == ~fail(1) /\ loaded < n
             currentCount == IF showMoreExists /\ ~fail(2)
                             THEN Min(loaded + more, n) ELSE loaded
             stable == IF currentCount = previousCount
                       THEN stableCountIterations + 1 ELSE 0
             hasLast == ~fail(4) /\ currentCount >= 1
                        /\ page.feed[currentCount].date # <<>>
             row == page.feed[currentCount]
             lastDate == NetflixScraper_parseDate(TrimSpace(row.date))
             q == NetflixExistenceQuery(row)
             reason ==
                 IF hasLast /\ lastDate.ok /\ lastDate.t[1] < targetYear THEN "age"
                 ELSE IF /\ hasLast /\ lastDate.ok /\ chk
                         /\ WatchHistoryExists(store, NetflixServiceID, q.title,
                                               q.episodeInfo, lastDate.t)
                 THEN "existing"
                 ELSE IF CountIsStable(stable) THEN "stable"
                 ELSE IF ~showMoreExists /\ currentCount = previousCount THEN "nomore"
                 ELSE ""
         IN  /\ expired' = (expired \/ cut # 0)
             /\ late' = (late \/ expired)
             /\ clickCount' = (clickCount + 1) % 10
             /\ loaded' = currentCount
             /\ IF fail(3)
                THEN UNCHANGED << previousCount, stableCountIterations, pc, halt, missed >>
                ELSE /\ stableCountIterations' = stable
                     /\ IF reason # ""
                        THEN pc' = "paginated" /\ halt' = reason /\ UNCHANGED previousCount
                        ELSE previousCount' = currentCount /\ UNCHANGED << pc, halt >>
                     /\ missed' = \/ missed
                                  \/ /\ cut = 0 /\ ~expired /\ chk /\ reason = ""
                                     /\ currentCount >= 1
                                     /\ Stored(store, drv, row, GetServiceByName(drv))
    /\ UNCHANGED << store, mgrVars, drv, page >>

\* the browser calls of one iteration of the YouTube TV loop, in their order
YouTubeSteps == << "count", "text", "title", "scroll" >>

\* One iteration of the YouTube TV loop. The calls are Evaluate(...).Do(ctx),
\* their errors dropped: a call that fails leaves its result at zero. The
\* waits are time.Sleep, which no deadline ends.
YouTubeIterate ==
    /\ pc = "paginate" /\ drv = "YouTube TV"
    /\ IF clickCount >= maxClicks
       THEN /\ pc' = "paginated" /\ halt' = "maxClicks"
            /\ UNCHANGED << loaded, previousCount, stableCountIterations, clickCount,
                            expired, missed, late >>
       ELSE \E cut \in (IF expired THEN { 0 } ELSE 0..Len(YouTubeSteps)),
               more \in 0..1, chk \in BOOLEAN :
         LET fail(k) == expired \/ (cut # 0 /\ cut <= k)
             n == Len(page.feed)
             currentCount == IF fail(1) THEN 0 ELSE loaded
             testStop == page.testMode /\ currentCount >= TestLimit
             stable == IF currentCount = previousCount
                       THEN stableCountIterations + 1 ELSE 0
             lastDateText == IF ~fail(2) /\ loaded >= 1
                             THEN ItemText(page.feed[loaded]) ELSE <<>>
             lastTitle == IF ~fail(3) /\ page.mirror /\ loaded >= 1
                          THEN TrimSpace(page.feed[loaded].title) ELSE <<>>
             lastDate == YouTubeTVScraper_parseDate(lastDateText)
             exists == /\ lastDateText # <<>> /\ lastTitle # <<>> /\ lastDate.ok /\ chk
                       /\ WatchHistoryExists(store, GetServiceByName(drv), lastTitle,
                                             <<>>, lastDate.t)
             reason == IF testStop THEN "testLimit"
                       ELSE IF exists THEN "existing"
                       ELSE IF CountIsStable(stable) THEN "stable"
                       ELSE ""
         IN  /\ expired' = (expired \/ cut # 0)
             /\ late' = (late \/ expired)
             /\ clickCount' = clickCount + 1
             /\ IF testStop
                THEN UNCHANGED << previousCount, stableCountIterations >>
                ELSE previousCount' = currentCount /\ stableCountIterations' = stable
             /\ IF reason # ""
                THEN pc' = "paginated" /\ halt' = reason /\ UNCHANGED loaded
                ELSE /\ loaded' = IF fail(4) THEN loaded ELSE Min(loaded + more, n)
                     /\ UNCHANGED << pc, halt >>
             /\ missed' = \/ missed
                          \/ /\ cut = 0 /\ ~expired /\ chk /\ reason = ""
                             /\ loaded >= 1
                             /\ Stored(store, drv, page.feed[loaded], GetServiceByName(drv))
    /\ UNCHANGED << store, mgrVars, drv, page >>

\* scrollToLoadItems returns to the driver
PaginateReturn ==
    /\ pc = "paginated"
    /\ pc' = "scrolled"
    /\ UNCHANGED << store, mgrVars, pgVars >>

\* the error of a failed browser call
ErrBrowser == "chromedp: call failed"

\* extractViewingHistory after scrollToLoadItems has returned nil: the query
\* for the rendered nodes, then the record of each node, a node whose
\* extraction fails left out. ok is whether the query succeeded; Netflix
\* returns ErrNoDataFound also when it finds no node.
ExtractViewingHistory ==
    /\ pc = "scrolled"
    /\ halt # "error"
    /\ \E ok \in (IF expired THEN { FALSE } ELSE BOOLEAN) :
         IF drv = "Netflix" /\ (~ok \/ loaded = 0)
         THEN items' = <<>> /\ retErr' = ErrNoDataFound
         ELSE IF ~ok
         THEN items' = <<>> /\ retErr' = ErrBrowser
         ELSE /\ items' = Extracted(drv, SubSeq(page.feed, 1, loaded))
              /\ retErr' = ""
    /\ pc' = "extracted"
    /\ UNCHANGED << store, runLog, scrapers, caller, pending, results, svcName, service,
                    idx, result, g, lastIns, prev, impVars, extVars, pgVars >>

NextPaginate ==
    \/ PaginateEnter
    \/ NetflixIterate
    \/ YouTubeIterate
    \/ PaginateReturn
    \/ ExtractViewingHistory

SpecPaginate == InitPaginate /\ [][NextPaginate]_vars

\* a pagination of a history that reaches below the cutoff year
InitPaginateOld ==
    /\ InitRest
    /\ pc = "paginate_enter"
    /\ drv \in MainScrapers
    /\ page \in OldPages(drv)
    /\ loaded = Min(1, Len(page.feed))
    /\ \E new \in 0..Len(page.feed) :
         store = StoreAll({}, Extracted(drv, SubSeq(page.feed, new + 1, Len(page.feed))),
                          GetServiceByName(drv))

SpecPaginateOld == InitPaginateOld /\ [][NextPaginate]_vars

\* a pagination of a page with gaps
InitPaginateRagged ==
    /\ InitRest
    /\ pc = "paginate_enter"
    /\ drv \in MainScrapers
    /\ page \in RaggedPages(drv)
    /\ loaded = Min(1, Len(page.feed))
    /\ \E new \in 0..Len(page.feed) :
         store = StoreAll({}, Extracted(drv, SubSeq(page.feed, new + 1, Len(page.feed))),
                          GetServiceByName(drv))

SpecPaginateRagged == InitPaginateRagged /\ [][NextPaginate]_vars

(***************************************************************************)
(* Properties of the store and of Manager.Run / RunAll / ImportCSV.        *)
(***************************************************************************)
\* the key of the UNIQUE constraint of watch_history
Key(r) == << r.ServiceID, r.Title, r.WatchedAt >>

\* C1: after any sequence of upserts issued by runs or imports the store holds
\* at most one record per (platform, title, watched-at), and an upsert whose
\* key already existed added no row and left the record of that key with the
\* duration, episode, thumbnail and genre it wrote.
C1_UpsertKeepsKeyUnique ==
    /\ \A r1, r2 \in store : Key(r1) = Key(r2) => r1 = r2
    /\ (lastIns.done /\ lastIns.existed) =>
          /\ Cardinality(store) = lastIns.before
          /\ \E r \in store :
                /\ Key(r) = Key(lastIns.wh)
                /\ r.DurationMinutes = lastIns.wh.DurationMinutes
                /\ r.EpisodeInfo = lastIns.wh.EpisodeInfo
                /\ r.ThumbnailURL = lastIns.wh.ThumbnailURL
                /\ r.Genre = lastIns.wh.Genre

\* an upsert met its key in the store and changed the duration and the episode
\* of the record
C1_Witness ==
    /\ lastIns.done /\ lastIns.existed
    /\ lastIns.wh.DurationMinutes = 40
    /\ lastIns.wh.EpisodeInfo = << "e" >>
    /\ Cardinality(store) = 1
    /\ \E r \in store : r.DurationMinutes = 40

\* Run is about to return from a second run of the same platform whose driver
\* returned the list the previous run's driver returned
SecondRun ==
    /\ pc = "run_ret" /\ caller = "api" /\ g.scraped
    /\ prev.op = "Run" /\ prev.name = svcName /\ prev.batch = g.batch

RunAllReturned == prev.op = "RunAll" /\ prev.returned

\* C4: RunAll over N registered drivers of which K fail returns a nil error and
\* N results, one per driver, N-K of them with Success true, whichever drivers
\* fail and in whatever order they are visited.
C4_RunAllReturnsAllResults ==
    RunAllReturned =>
      /\ prev.err = ""
      /\ Len(results) = Cardinality(prev.drivers)
      /\ { results[i].ServiceName : i \in 1..Len(results) } = prev.drivers
      /\ Cardinality({ i \in 1..Len(results) : results[i].Success })
            = Cardinality(prev.drivers) - Cardinality(prev.failed)
      /\ \A i \in 1..Len(results) :
            results[i].Success <=> results[i].ServiceName \notin prev.failed

\* three drivers, the first visited failed, the two after it ran and succeeded
C4_Witness ==
    /\ RunAllReturned
    /\ Len(results) = 3
    /\ Cardinality(prev.failed) = 1
    /\ ~results[1].Success /\ results[2].Success /\ results[3].Success

\* Run is about to return after the driver's Scrape returned an error
DriverFailed == pc = "run_ret" /\ g.cause = "driver"

\* what C5 says of everything but the run log: no upsert, the driver's error
\* returned with a Result whose Success is false
C5_NoUpsertErrorReturned ==
    /\ g.attempts = 0 /\ store = g.storeAtStart
    /\ retErr \in DriverErrors
    /\ result.Error = retErr
    /\ ~result.Success
    /\ result.ItemsScraped = 0

DriverSucceeded == pc = "run_ret" /\ g.scraped

C7_CountIsPersisted ==
    DriverSucceeded =>
      /\ result.ItemsScraped = g.persisted
      /\ \A i \in 1..Len(runLog) : runLog[i].ItemsScraped = g.persisted

\* C8 as stated: every Run of a registered driver has appended exactly one
\* RunOutcome by the time it returns, whatever its outcome.
C8_OneRunOutcomePerRun ==
    (pc = "run_ret" /\ g.cause # "registry") => Len(runLog) = 1

\* ImportCSV is about to return from importing the file the previous call
\* imported, every data row of which that call imported
Reimport ==
    /\ pc = "import_ret"
    /\ prev.op = "ImportCSV" /\ prev.file = csvFile /\ prev.all

\* C3 as stated: reimporting a CSV whose rows were all imported by the prior
\* call returns Imported = 0 and Skipped = the number of data rows.
C3_ReimportSkipsAll ==
    Reimport =>
      /\ impResult.Imported = 0
      /\ impResult.Skipped = Len(csvFile.rows)

(***************************************************************************)
(* Properties of the pagination loops.                                     *)
(***************************************************************************)
\* C9 as stated: each driver's pagination halts at the first iteration whose
\* last rendered item is already stored, not at a later one; that is, no
\* iteration that meets a stored last item (the deadline not passed, the
\* store answering) leaves the loop running.
C9_HaltsAtFirstStoredItem == ~missed

\* C10 as stated: when the deadline passes while a driver harvests, the driver
\* returns to the orchestrator and no driver loop keeps iterating; that is, no
\* iteration of a pagination loop begins after the deadline has passed.
C10_NoIterationAfterDeadline == ~late


(***************************************************************************)
(* Handler.triggerScrape: the handler starts a goroutine that calls        *)
(* Manager.Run and writes its response; the two run concurrently. One      *)
(* request is in hand at a time, and the next comes after the goroutine    *)
(* of the last has ended.                                                  *)
(***************************************************************************)
\* Manager.Run of the goroutine has returned, or the goroutine has ended
RunCompleted ==
    \/ http.goroutine = "done"
    \/ http.goroutine = "running" /\ pc = "run_ret"

\* where the goroutine is when the handler looks
GoroutineAt ==
    IF RunCompleted THEN "completed" ELSE http.goroutine

\* the handler up to the go statement: the goroutine exists, has not run
TriggerScrape(serviceName) ==
    /\ pc = "idle"
    /\ http.state \in { "idle", "responded" }
    /\ http.goroutine \in { "none", "done" }
    /\ http' = [ NoRequest EXCEPT !.state = "handling", !.service = serviceName,
                                  !.goroutine = "ready" ]
    /\ UNCHANGED << store, runLog, scrapers, pc, caller, pending, results, runVars, g, lastIns,
                    prev, impVars, pgVars, httpOthers >>

\* a slip: the handler writes its response when the run has returned
TriggerRespondAfterRun ==
    /\ http.state = "handling"
    /\ RunCompleted
    /\ http' = [ http EXCEPT !.state = "responded", !.code = StatusAccepted,
                             !.body = [ message |-> "Scraper triggered",
                                        service |-> http.service,
                                        status |-> "running" ],
                             !.runAtResponse = GoroutineAt ]
    /\ UNCHANGED << store, runLog, scrapers, pc, caller, pending, results, runVars, g,
                    lastIns, prev, impVars, pgVars, httpOthers >>

\* respondJSON(w, http.StatusAccepted, ...): nothing of the goroutine is read
TriggerRespond ==
    /\ http.state = "handling"
    /\ http' = [ http EXCEPT !.state = "responded", !.code = StatusAccepted,
                             !.body = [ message |-> "Scraper triggered",
                                        service |-> http.service,
                                        status |-> "running" ],
                             !.runAtResponse = GoroutineAt ]
    /\ UNCHANGED << store, runLog, scrapers, pc, caller, pending, results, runVars, g,
                    lastIns, prev, impVars, pgVars, httpOthers >>

\* the goroutine begins: h.scraperManager.Run(ctx, serviceNameCapitalized)
TriggerGo ==
    /\ pc = "idle"
    /\ http.goroutine = "ready"
    /\ \E lookup \in BOOLEAN :
         RunEnter(capitalizeServiceName(http.service), "trigger", lookup)
    /\ http' = [ http EXCEPT !.goroutine = "running" ]
    /\ UNCHANGED << store, scrapers, pending, results, lastIns, prev, impVars, pgVars, httpOthers >>

\* Run has returned (result, err): the goroutine drops both and ends
TriggerGoExit ==
    /\ pc = "run_ret"
    /\ caller = "trigger"
    /\ http.goroutine = "running"
    /\ http' = [ http EXCEPT !.goroutine = "done" ]
    /\ pc' = "idle"
    /\ svcName' = ""
    /\ service' = 0
    /\ items' = <<>>
    /\ idx' = 1
    /\ result' = NilResult
    /\ retErr' = ""
    /\ g' = NewG({})
    /\ lastIns' = NoIns
    /\ UNCHANGED << store, runLog, scrapers, caller, pending, results, prev, impVars,
                    pgVars, httpOthers >>

NextTrigger ==
    \/ \E serviceName \in TriggerNames : TriggerScrape(serviceName)
    \/ TriggerRespond
    \/ TriggerGo
    \/ RunScrape
    \/ RunStoreItem
    \/ RunRecordSuccess
    \/ TriggerGoExit

SpecTrigger == Init /\ [][NextTrigger]_vars

KeysDiffer(q1, q2) ==
    LET q == q1 \o q2
    IN  \A i, j \in 1..Len(q) : i # j => Key(q[i]) # Key(q[j])

InitWriters ==
    /\ pc = "writing"
    /\ InitMgr
    /\ http = NoRequest
    /\ scrape = NoScrape
    /\ enrich = NoEnrich
    /\ dates = NoParse
    /\ overlap = NoOverlap
    /\ NoPagination
    /\ store0 \in WriterStores
    /\ store = store0
    /\ wlog = << >>
    /\ \E k \in { "run", "import" }, q1, q2 \in SeqsUpTo(WriterItems, MaxWrites) :
         /\ KeysDiffer(q1, q2)
         /\ writers = << [ kind |-> "run", queue |-> q1 ], [ kind |-> k, queue |-> q2 ] >>

\* writer w writes its next record
Write(w) ==
    /\ pc = "writing"
    /\ writers[w].queue # << >>
    /\ \E chk \in (IF writers[w].kind = "import" THEN BOOLEAN ELSE { TRUE }),
          ins \in BOOLEAN :
         LET wh == Head(writers[w].queue)
         IN  /\ store' = WriterStep(store, writers[w].kind, wh, chk, ins)
             /\ wlog' = Append(wlog, [ w |-> w, kind |-> writers[w].kind, wh |-> wh,
                                       chk |-> chk, ins |-> ins ])
    /\ writers' = [ writers EXCEPT ![w].queue = Tail(@) ]
    /\ UNCHANGED << store0, wrOthers, runLog, scrapers, pc, caller, pending, results, runVars,
                    g, lastIns, prev, impVars, pgVars >>

\* both writers have returned
WritersReturn ==
    /\ pc = "writing"
    /\ \A w \in 1..2 : writers[w].queue = << >>
    /\ pc' = "written"
    /\ UNCHANGED << store, mgrVars, pgVars >>

NextWriters ==
    \/ \E w \in 1..2 : Write(w)
    \/ WritersReturn

SpecWriters == InitWriters /\ [][NextWriters]_vars

ScrapeEnter(d, cfg) ==
    /\ pc = "idle"
    /\ scrape.pc = "none"
    /\ scrape' = IF ~cfg.present \/ ~cfg.Enabled
                 THEN [ NoScrape EXCEPT !.pc = "returned", !.drv = d, !.cfg = cfg,
                                        !.err = ErrNotConfigured(d) ]
                 ELSE [ NoScrape EXCEPT !.pc = "loadCookies", !.drv = d, !.cfg = cfg ]
    /\ UNCHANGED << store, pc, mgrVarsOnly, scrapeOthers, pgVars >>

\* loadCookies. Netflix returns an error for an empty cookie list before it
\* opens the site; the two others open the site whatever the list holds. fails
\* are the browser actions that fail if issued. The first failure ends
\* loadCookies of Netflix and of Amazon Video; YouTube TV ends on a failed
\* Navigate only, logs a failed SetCookie and goes on to the next cookie.
\* accepted counts the SetCookie actions that succeeded (cookiesSet).
ScrapeLoadCookies ==
    /\ scrape.pc = "loadCookies"
    /\ LET d == scrape.drv
           all == LoadCookiesActions(d, scrape.cfg.Cookies)
       IN  IF d = "Netflix" /\ Len(scrape.cfg.Cookies) = 0
           THEN scrape' = [ scrape EXCEPT !.pc = "returned", !.err = ErrNoCookies ]
           ELSE \E fails \in SUBSET (1..Len(all)) :
                  LET ends == IF d = "YouTube TV" THEN fails \cap { 1 } ELSE fails
                      first == IF ends = {} THEN 0
                               ELSE CHOOSE k \in ends : \A l \in ends : k <= l
                      issued == IF first = 0 THEN Len(all) ELSE first
                      set == Cardinality((2..issued) \ fails)
                  IN  IF first = 0
                      THEN scrape' = [ scrape EXCEPT !.pc = "navigate",
                                                     !.browser = @ \o all,
                                                     !.accepted = set ]
                      ELSE scrape' = [ scrape EXCEPT !.pc = "returned",
                                                     !.browser = @ \o SubSeq(all, 1, first),
                                                     !.err = ErrLoadCookies,
                                                     !.accepted = set ]
    /\ UNCHANGED << store, pc, mgrVarsOnly, scrapeOthers, pgVars >>

\* the navigation to the history page
ScrapeNavigate ==
    /\ scrape.pc = "navigate"
    /\ \E ok \in BOOLEAN :
         scrape' = [ scrape EXCEPT !.pc = IF ok THEN "extract" ELSE "returned",
                                   !.browser = Append(@, [ action |-> "Navigate",
                                                           url |-> "history" ]),
                                   !.err = IF ok THEN << >> ELSE ErrScrapeNavigation ]
    /\ UNCHANGED << store, pc, mgrVarsOnly, scrapeOthers, pgVars >>

\* extractViewingHistory: the scripts it evaluates on the page
ScrapeExtract ==
    /\ scrape.pc = "extract"
    /\ \E ok \in BOOLEAN :
         scrape' = [ scrape EXCEPT !.pc = "returned",
                                   !.browser = Append(@, [ action |-> "Evaluate",
                                                           url |-> "history" ]),
                                   !.err = IF ok THEN << >> ELSE ErrExtraction ]
    /\ UNCHANGED << store, pc, mgrVarsOnly, scrapeOthers, pgVars >>

\* the caller has the return values; the browser session is torn down
ScrapeReturn ==
    /\ scrape.pc = "returned"
    /\ scrape' = NoScrape
    /\ UNCHANGED << store, pc, mgrVarsOnly, scrapeOthers, pgVars >>

NextScrape ==
    \/ \E d \in ScrapeDrivers, cfg \in ServiceConfigs : ScrapeEnter(d, cfg)
    \/ ScrapeLoadCookies
    \/ ScrapeNavigate
    \/ ScrapeExtract
    \/ ScrapeReturn

SpecScrape == Init /\ [][NextScrape]_vars

\* the platform is not configured, is disabled, or has no cookies
Unconfigured(cfg) == ~cfg.present \/ ~cfg.Enabled \/ Len(cfg.Cookies) = 0

\* C13: a Scrape for a platform that is not configured, is disabled or has no
\* authentication cookies issues no browser action and returns a configuration
\* error.
C13_ConfigErrorBeforeBrowser ==
    (scrape.pc # "none" /\ Unconfigured(scrape.cfg)) =>
        /\ scrape.browser = << >>
        /\ scrape.pc = "returned" => scrape.err \in ConfigErrors


\* the row loop of ImportCSV is about to read a data row of fewer than two
\* fields
ShortRowNext ==
    /\ pc = "import_loop"
    /\ rowIdx <= Len(csvFile.rows)
    /\ Len(csvFile.rows[rowIdx]) < 2

\* C14: in ImportCSV a data row of fewer than two fields is counted in Skipped
\* and not in Errors, adds no error message, and the import goes on with the
\* next row.
C14_ShortRowIsSkipped ==
    [][ ShortRowNext =>
          /\ impResult'.Skipped = impResult.Skipped + 1
          /\ impResult'.Errors = impResult.Errors
          /\ impResult'.ErrorMessages = impResult.ErrorMessages
          /\ pc' = "import_loop"
          /\ rowIdx' = rowIdx + 1 ]_vars


(***************************************************************************)
(* processRow with the TMDB client: one call for a row, the requests of    *)
(* SearchTitle answered by tmdb.                                           *)
(***************************************************************************)
ProcessRow(row, tmdb) ==
    /\ pc = "idle"
    /\ \E chk \in BOOLEAN, ins \in BOOLEAN :
         LET out == processRow(store, row, SearchTitle(tmdb), chk, ins)
         IN  /\ store' = out.store
             /\ enrich' = [ pc |-> "returned", row |-> row, tmdb |-> tmdb, out |-> out ]
    /\ UNCHANGED << pc, mgrVarsOnly, enrichOthers, pgVars >>

NextEnrich == \E row \in CsvRows, tmdb \in TMDBs : ProcessRow(row, tmdb)

SpecEnrich == Init /\ [][NextEnrich]_vars

\* the lookup failed, or gave no runtime or the runtime 0
NoUsableRuntime(tmdb) ==
    \/ SearchTitle(tmdb).err
    \/ SearchTitle(tmdb).MediaType = "movie" /\ tmdb.Runtime = 0
    \/ SearchTitle(tmdb).MediaType = "tv"
         /\ (tmdb.EpisodeRunTime = << >> \/ SearchTitle(tmdb).DurationMinutes = 0)

\* C15: when the metadata lookup fails or gives no usable runtime, the record
\* processRow stores has the heuristic duration of the row: 40 minutes with an
\* episode label, 105 without.
C15_FallbackIsHeuristic ==
    (enrich.pc = "returned" /\ enrich.out.wh.done /\ NoUsableRuntime(enrich.tmdb)) =>
        LET wh == enrich.out.wh.wh
        IN  wh.DurationMinutes = estimateDuration(wh.Title, wh.EpisodeInfo)


\* estimateDuration of the driver drv
DriverEstimate(d, title, episodeInfo) ==
    IF d = "Netflix" THEN NetflixScraper_estimateDuration(title, episodeInfo)
    ELSE YouTubeTVScraper_estimateDuration(title, episodeInfo)

\* C16: every record a driver emits has the duration the driver's
\* estimateDuration gives for the record's label: its TV-episode estimate for
\* a non-empty label, its movie estimate for an empty one.
C16_DurationFollowsLabel ==
    pc = "extracted" =>
        \A i \in 1..Len(items) :
            items[i].DurationMinutes =
                DriverEstimate(drv, items[i].Title, items[i].EpisodeInfo)


(***************************************************************************)
(* parseDate of the Netflix driver on the text of a date: a date is        *)
(* formatted with a layout, spaces around it or not, and parsed.           *)
(***************************************************************************)
\* parseDate(t.Format(layout))
ParseFormatted(layout, t, pad) ==
    /\ pc = "idle"
    /\ LET text == IF pad THEN << " " >> \o Format(layout, t) \o << " " >>
                   ELSE Format(layout, t)
       IN  dates' = [ pc |-> "parsed", layout |-> layout, date |-> t, text |-> text,
                      out |-> NetflixScraper_parseDate(text) ]
    /\ UNCHANGED << store, pc, mgrVarsOnly, datesOthers, pgVars >>

\* parseDate of a text that no layout gives
ParseOther(text) ==
    /\ pc = "idle"
    /\ dates' = [ pc |-> "parsed", layout |-> "", date |-> << 0, 0, 0 >>, text |-> text,
                  out |-> NetflixScraper_parseDate(text) ]
    /\ UNCHANGED << store, pc, mgrVarsOnly, datesOthers, pgVars >>

NextParseDate ==
    \/ \E i \in 1..Len(Layouts), t \in CalendarDates, pad \in BOOLEAN :
         ParseFormatted(Layouts[i], t, pad)
    \/ \E text \in OtherTexts : ParseOther(text)

SpecParseDate == Init /\ [][NextParseDate]_vars

\* C17, as stated: for every layout, parseDate of a calendar date formatted in
\* it returns that year, month and day.
C17_RoundTrip_Original ==
    (dates.pc = "parsed" /\ dates.layout # "") =>
        dates.out.ok /\ dates.out.t = dates.date

\* the years a two-digit year stands for
InTwoDigitWindow(y) == y >= 1969 /\ y <= 2068

\* C17: parseDate of a calendar date formatted in a supported layout returns
\* that month and day, and that year for the five layouts with a four-digit
\* year and, for M/D/YY, for the years 1969 to 2068; for M/D/YY and another
\* year it returns the year of that window with the same last two digits.
\* A text of no layout gives an error.
C17_RoundTrip ==
    dates.pc = "parsed" =>
        IF dates.layout = "" THEN ~dates.out.ok
        ELSE /\ dates.out.ok
             /\ dates.out.t[2] = dates.date[2]
             /\ dates.out.t[3] = dates.date[3]
             /\ (dates.layout # "1/2/06" \/ InTwoDigitWindow(dates.date[1]))
                   => dates.out.t[1] = dates.date[1]
             /\ (dates.layout = "1/2/06" /\ ~InTwoDigitWindow(dates.date[1]))
                   => /\ InTwoDigitWindow(dates.out.t[1])
                      /\ dates.out.t[1] % 100 = dates.date[1] % 100

\* a date of 1969 written M/D/YY, spaces around it, parsed back to 1969
C17_Witness ==
    /\ dates.pc = "parsed"
    /\ dates.layout = "1/2/06"
    /\ dates.date = << 1969, 12, 31 >>
    /\ dates.text = << " ", "12", "/", "31", "/", "69", " " >>
    /\ dates.out.ok
    /\ dates.out.t = << 1969, 12, 31 >>


\* the Netflix loop has just ended on a last rendered row that is in the
\* store, as the loop queries it, and whose year is below targetYear
EndedOnStoredOldRow ==
    /\ pc = "paginated"
    /\ drv = "Netflix"
    /\ halt \in { "age", "existing" }
    /\ loaded >= 1
    /\ LET row == page.feed[loaded]
           lastDate == NetflixScraper_parseDate(TrimSpace(row.date))
           q == NetflixExistenceQuery(row)
       IN  /\ lastDate.ok
           /\ lastDate.t[1] < targetYear
           /\ WatchHistoryExists(store, NetflixServiceID, q.title, q.episodeInfo,
                                 lastDate.t)

\* C18: an iteration whose last rendered item is in the store and has a year
\* below the cutoff ends the loop for the existing-entry reason.
C18_ExistingBeforeAge == EndedOnStoredOldRow => halt = "existing"


\* what the exit tests of the pagination loop of the driver read: the page and
\* the store, the counts, whether the calls fail, and in the YouTube TV loop
\* the iteration counter of its guard clickCount < maxClicks. The Netflix loop
\* counts its iterations for its log lines and has no guard.
LoopState ==
    IF drv = "Netflix"
    THEN << page, store, loaded, previousCount, stableCountIterations, expired >>
    ELSE << page, store, loaded, previousCount, stableCountIterations, expired,
            clickCount >>

\* C19: the pagination loop of every driver halts within a fixed number of
\* iterations, whatever the feed and the calls do; so no iteration that stays
\* in the loop leaves everything the exit tests read as it found it (the loop
\* could repeat that iteration for ever).
C19_LoopIsCapped ==
    [][ (pc = "paginate" /\ pc' = "paginate") => LoopState' # LoopState ]_vars


\* C20, as stated: the loop ends because of an unchanged count only when the
\* count has been unchanged for three consecutive iterations, and it does not
\* go on after three.
C20_StabilityHalt_Original ==
    /\ (pc = "paginated" /\ halt \in { "stable", "nomore" }) => stableCountIterations >= 3
    /\ pc = "paginate" => stableCountIterations < 3

\* C20: both loops end for stability when the count has been unchanged for
\* three consecutive iterations, not before, and no loop goes on after a third
\* such iteration. The Netflix loop has one more exit on an unchanged count:
\* with no Show More button on the page it ends at the first iteration whose
\* count is unchanged.
C20_StabilityHalt ==
    /\ (pc = "paginated" /\ halt = "stable") => stableCountIterations = 3
    /\ pc = "paginate" => stableCountIterations < 3
    /\ (pc = "paginated" /\ halt = "nomore") =>
          /\ drv = "Netflix"
          /\ stableCountIterations \in 1..2
          /\ loaded = previousCount
          /\ (loaded = Len(page.feed) \/ expired)

\* a loop ended for stability at its third iteration with an unchanged count,
\* rows rendered and more to load
C20_Witness ==
    /\ pc = "paginated"
    /\ halt = "stable"
    /\ stableCountIterations = 3
    /\ loaded >= 1
    /\ loaded < Len(page.feed)
    /\ ~expired


(***************************************************************************)
(* The age threshold of the pagination loops.                              *)
(***************************************************************************)
\* an iteration of the loop, all of whose browser calls succeed, reads a last
\* rendered item and parses from it a date of a year below targetYear
ReadsOldLastItem ==
    /\ pc = "paginate"
    /\ ~expired'
    /\ IF drv = "Netflix"
       THEN /\ loaded' >= 1
            /\ LET lastDate == NetflixScraper_parseDate(TrimSpace(page.feed[loaded'].date))
               IN  lastDate.ok /\ lastDate.t[1] < targetYear
       ELSE /\ clickCount < maxClicks
            /\ loaded >= 1
            /\ page.mirror
            /\ LET lastDate == YouTubeTVScraper_parseDate(ItemText(page.feed[loaded]))
               IN  lastDate.ok /\ lastDate.t[1] < targetYear

\* C21: in every driver that paginates, an iteration in which the year parsed
\* from the last rendered item is below the cutoff year ends the loop in that
\* same iteration.
C21_AgeHaltsSameIteration == [][ ReadsOldLastItem => pc' = "paginated" ]_vars


(***************************************************************************)
(* The session bootstrap: the cookies loadCookies sets.                    *)
(***************************************************************************)
\* loadCookies has returned an error to Scrape
BootstrapFailed ==
    scrape.pc = "returned" /\ scrape.err \in { ErrLoadCookies, ErrNoCookies }

\* C22: the session bootstrap fails, and the run ends before the navigation
\* to the history page, if and only if no cookie was accepted: with one cookie
\* or more accepted the run goes on, with none accepted (or none supplied) it
\* fails.
C22_BootstrapFailsIffNoToken ==
    /\ scrape.pc = "navigate" => scrape.accepted >= 1
    /\ BootstrapFailed => scrape.accepted = 0


(***************************************************************************)
(* What extractViewingHistory returns of the rendered items.               *)
(***************************************************************************)
\* extractViewingHistory has returned records
ExtractedOk == pc = "extracted" /\ retErr = ""

\* the rendered items the extraction went through
Rendered == SubSeq(page.feed, 1, loaded)

\* the title the driver gives the record of a rendered item
TitleOf(it) ==
    IF drv = "Netflix" THEN parseViewingActivityRow(it).item.Title
    ELSE extractHistoryItem(it).item.Title

\* whether the date text of a rendered item is a date to the driver
DateParses(it) ==
    IF drv = "Netflix" THEN NetflixScraper_parseDate(it.date).ok
    ELSE parseDateAndTime(it.dateHeader, TimePart(it.timeText)).ok

\* a returned record has the title of the rendered item
EmittedFor(it) == \E k \in 1..Len(items) : items[k].Title = TitleOf(it)

\* C23: no driver returns a record with an empty title: a rendered item with
\* no title is left out, and the rendered items with a title and a date are
\* returned.
C23_NoEmptyTitle ==
    ExtractedOk =>
        /\ \A k \in 1..Len(items) : items[k].Title # << >>
        /\ \A i \in 1..Len(Rendered) :
              (TitleOf(Rendered[i]) # << >> /\ DateParses(Rendered[i]))
                  => EmittedFor(Rendered[i])

\* C24: in every driver a rendered item whose date text is no date is not
\* left out and does not end the extraction: its record is returned with a
\* default timestamp, and so are the records of the other items.
C24_BadDateKeepsItem ==
    ExtractedOk =>
        \A i \in 1..Len(Rendered) :
            (TitleOf(Rendered[i]) # << >> /\ ~DateParses(Rendered[i]))
                => \E k \in 1..Len(items) :
                      /\ items[k].Title = TitleOf(Rendered[i])
                      /\ items[k].WatchedAt \in { Now, NoDate.t, NoTime.t }


(***************************************************************************)
(* The platform of the records of the shared feed.                         *)
(***************************************************************************)
\* the labels of the shared feed that name a platform
PlatformLabels == { << "YouTube", " ", "TV" >>, << "YouTube" >> }

\* the name of the platform a label stands for
LabelPlatform(label) == IF label = << "YouTube" >> THEN "YouTube" ELSE "YouTube TV"

\* a returned record has the title and the label of the rendered item and
\* carries an id, that of YouTube TV exactly when the label says YouTube TV
EmittedUnderLabel(it) ==
    \E k \in 1..Len(items) :
        /\ items[k].Title = TrimSpace(it.title)
        /\ items[k].EpisodeInfo = TrimSpace(it.label)
        /\ items[k].ServiceID # 0
        /\ (items[k].ServiceID = GetServiceByName("YouTube TV"))
              <=> (LabelPlatform(TrimSpace(it.label)) = "YouTube TV")

\* the store loop of Run has set the platform of the records it went through:
\* the one the driver assigned, that of the run where the driver assigned none
RunKeepsAssignedPlatform ==
    (pc = "store" /\ Len(g.batch) = Len(items)) =>
        \A k \in 1..(idx - 1) :
            items[k].ServiceID =
                IF g.batch[k].ServiceID # 0 THEN g.batch[k].ServiceID ELSE service

\* C25: the shared-feed driver returns an item labelled "YouTube TV" under the
\* platform YouTube TV and an item labelled "YouTube" under the platform
\* YouTube, and leaves out an item with any other label; Run stores each
\* record under the platform the driver assigned and under its own platform
\* only when the driver assigned none.
C25_LabelDecidesPlatform ==
    /\ (ExtractedOk /\ drv = "YouTube TV") =>
          /\ \A i \in 1..Len(Rendered) :
                (Rendered[i].title # << >> /\ TrimSpace(Rendered[i].label) \in PlatformLabels)
                    => EmittedUnderLabel(Rendered[i])
          /\ \A k \in 1..Len(items) : items[k].EpisodeInfo \in PlatformLabels
    /\ RunKeepsAssignedPlatform


(***************************************************************************)
(* The date of a header that gives a month and a day and no year, in the   *)
(* two drivers that take such a header.                                    *)
(***************************************************************************)
\* the drivers whose date function takes a month and a day with no year
HeaderDrivers == { "YouTube TV", "Amazon Video" }

\* the days of the headers
HeaderDays == { 1, 5, 15, 27, 28, 29, 31 }

\* the times of the items under a header
HeaderTimes == { << "6", ":", "00", " ", "AM" >>, << "6", ":", "00", " ", "PM" >> }

\* the date function of a driver on a header made of the name of month m (long
\* for col = 1, short for col = 2) and the day; YouTube TV parses it with the
\* time of the item
ParseHeader(d, m, col, day, time) ==
    /\ pc = "idle"
    /\ LET text == << MonthName(m, col), " ", Itoa(day) >>
       IN  dates' = [ pc |-> "header", drv |-> d, month |-> m, day |-> day, text |-> text,
                      out |-> IF d = "YouTube TV" THEN parseDateAndTime(text, time)
                              ELSE parseAmazonDate(text) ]
    /\ UNCHANGED << store, pc, mgrVarsOnly, datesOthers, pgVars >>

NextHeaderDate ==
    \E d \in HeaderDrivers, mo \in Months, col \in 1..2, day \in HeaderDays,
       time \in HeaderTimes :
        ParseHeader(d, mo[3], col, day, time)

SpecHeaderDate == Init /\ [][NextHeaderDate]_vars

\* the calendar day of now
Today == << Now[1], Now[2], Now[3] >>

\* C26: in every driver that takes a header made of a month name and a day
\* with no year, the date is of the current year unless that day of the
\* current year is later than today, and then of the year before; such a
\* header never gives a day in the future.
C26_YearlessHeaderNotInFuture ==
    dates.pc = "header" =>
        LET day == SubSeq(dates.out.t, 1, 3)
            year == IF After(<< Now[1], dates.month, dates.day >>, Today)
                    THEN Now[1] - 1 ELSE Now[1]
        IN  /\ dates.out.ok
            /\ day = << year, dates.month, dates.day >>
            /\ ~After(day, Today)


(***************************************************************************)
(* The existence query of the Netflix pagination loop against what the     *)
(* extraction and Run stored.                                              *)
(***************************************************************************)
\* the Netflix loop is running and the last rendered row is one an earlier run
\* extracted and stored
LastRowWasStored ==
    /\ drv = "Netflix"
    /\ pc = "paginate"
    /\ loaded >= 1
    /\ Stored(store, drv, page.feed[loaded], GetServiceByName(drv))

\* C27: for a rendered row that the Netflix driver extracted and Run stored in
\* an earlier run, the existence check of the pagination loop on that row asks
\* the store for the platform, the title and the episode label that were
\* stored, and so finds the row.
C27_ExistenceQueryMatchesStored ==
    LastRowWasStored =>
        LET row == page.feed[loaded]
            x == parseViewingActivityRow(row).item
            q == NetflixExistenceQuery(row)
            lastDate == NetflixScraper_parseDate(TrimSpace(row.date))
        IN  /\ NetflixServiceID = GetServiceByName(drv)
            /\ q.title = x.Title
            /\ q.episodeInfo = x.EpisodeInfo
            /\ lastDate.ok /\ lastDate.t = x.WatchedAt
            /\ WatchHistoryExists(store, NetflixServiceID, q.title, q.episodeInfo,
                                  lastDate.t)


(***************************************************************************)
(* Two episodes of one show on one day in one CSV file.                    *)
(***************************************************************************)
\* the record processRow makes of a data record of two fields
CsvRowRecord(record) ==
    LET te == splitTitleAndEpisode(TrimSpace(record[1]))
    IN  [ title |-> te[1], episodeInfo |-> te[2], date |-> parseDate(TrimSpace(record[2])) ]

\* data records i and j of the file are two episodes of one show on one day
TwoEpisodesOneDay(i, j) ==
    /\ Len(csvFile.rows[i]) = 2 /\ Len(csvFile.rows[j]) = 2
    /\ LET a == CsvRowRecord(csvFile.rows[i])
           b == CsvRowRecord(csvFile.rows[j])
       IN  /\ a.title = b.title
           /\ a.date.ok /\ a.date = b.date
           /\ a.episodeInfo # b.episodeInfo

\* the store holds the record of a data record
Kept(record) ==
    LET a == CsvRowRecord(record)
    IN  WatchHistoryExists(store, ImporterServiceID, a.title, a.episodeInfo, a.date.t)

\* C28: two rows of one import with the same base title and the same date and
\* different episode labels are both in the store, as two records, when
\* ImportCSV returns with every row imported: the second neither overwrites
\* the first nor is lost.
C28_BothEpisodesKept ==
    (pc = "import_ret" /\ impResult.Imported = Len(csvFile.rows)) =>
        \A i, j \in 1..Len(csvFile.rows) :
            TwoEpisodesOneDay(i, j) =>
                /\ Kept(csvFile.rows[i])
                /\ Kept(csvFile.rows[j])
                /\ Cardinality(store) >= 2


(***************************************************************************)
(* The counters of ImportCSV.                                              *)
(***************************************************************************)
\* C29: when ImportCSV returns a result, TotalRows = Imported + Skipped +
\* Errors and the number of error messages is Errors, whatever the data
\* records of the file.
C29_CountersAddUp ==
    pc = "import_ret" =>
        /\ impResult.TotalRows
              = impResult.Imported + impResult.Skipped + impResult.Errors
        /\ Len(impResult.ErrorMessages) = impResult.Errors


(***************************************************************************)
(* Two Run invocations for YouTube TV that overlap: two POSTs to the       *)
(* trigger endpoint, each with its goroutine, and the one driver the       *)
(* manager holds. Each call goes through its rendered items with           *)
(* extractHistoryItem; the steps of a call interleave with those of the    *)
(* other at the accesses to serviceIDCache, a Go map with no lock.         *)
(***************************************************************************)
\* both goroutines have reached the extraction, each with its rendered items
OverlapStart(f1, f2) ==
    /\ pc = "idle"
    /\ ~overlap.crashed
    /\ \A w \in 1..2 : overlap.calls[w].pc = "idle"
    /\ overlap' = [ overlap EXCEPT
                      !.calls = << [ pc |-> "next", todo |-> f1, out |-> << >> ],
                                   [ pc |-> "next", todo |-> f2, out |-> << >> ] >> ]
    /\ UNCHANGED << store, pc, mgrVarsOnly, overlapOthers, pgVars >>

\* call w leaves the item in hand out, or returns its record, and goes on
Dropped(w) ==
    [ overlap EXCEPT !.calls[w].pc = "next", !.calls[w].todo = Tail(@) ]

Returned(w, c) ==
    [ c EXCEPT !.calls[w].pc = "next",
               !.calls[w].out = Append(@, extractHistoryItem(Head(c.calls[w].todo)).item),
               !.calls[w].todo = Tail(@) ]

\* extractHistoryItem up to the cache: an item with no title or with a label
\* that names no platform is left out; else the read of the map begins
ItemBegin(w) ==
    /\ ~overlap.crashed
    /\ overlap.calls[w].pc = "next"
    /\ overlap.calls[w].todo # << >>
    /\ LET it == Head(overlap.calls[w].todo)
       IN  overlap' = IF it.title = << >> \/ LabelServiceName(it) = ""
                      THEN Dropped(w)
                      ELSE [ overlap EXCEPT !.calls[w].pc = "reading" ]
    /\ UNCHANGED << store, pc, mgrVarsOnly, overlapOthers, pgVars >>

\* serviceID, ok := s.serviceIDCache[serviceName]
CacheRead(w) ==
    /\ ~overlap.crashed
    /\ overlap.calls[w].pc = "reading"
    /\ LET name == LabelServiceName(Head(overlap.calls[w].todo))
       IN  overlap' = IF \E e \in overlap.cache : e[1] = name
                      THEN Returned(w, overlap)
                      ELSE [ overlap EXCEPT !.calls[w].pc = "query" ]
    /\ UNCHANGED << store, pc, mgrVarsOnly, overlapOthers, pgVars >>

\* s.db.GetServiceByName(serviceName) after a miss; ok is whether the query
\* succeeded. An item of a platform the table does not hold is left out.
CacheMiss(w) ==
    /\ ~overlap.crashed
    /\ overlap.calls[w].pc = "query"
    /\ \E ok \in BOOLEAN :
         LET name == LabelServiceName(Head(overlap.calls[w].todo))
         IN  overlap' = IF ~ok \/ GetServiceByName(name) = 0
                        THEN Dropped(w)
                        ELSE [ overlap EXCEPT !.calls[w].pc = "writing" ]
    /\ UNCHANGED << store, pc, mgrVarsOnly, overlapOthers, pgVars >>

\* s.serviceIDCache[serviceName] = serviceID, and the rest of the function
CacheWrite(w) ==
    /\ ~overlap.crashed
    /\ overlap.calls[w].pc = "writing"
    /\ LET name == LabelServiceName(Head(overlap.calls[w].todo))
       IN  overlap' = Returned(w, [ overlap EXCEPT
                                      !.cache = @ \cup { << name, GetServiceByName(name) >> } ])
    /\ UNCHANGED << store, pc, mgrVarsOnly, overlapOthers, pgVars >>

\* extractViewingHistory of call w returns its records
ItemsDone(w) ==
    /\ ~overlap.crashed
    /\ overlap.calls[w].pc = "next"
    /\ overlap.calls[w].todo = << >>
    /\ overlap' = [ overlap EXCEPT !.calls[w].pc = "done" ]
    /\ UNCHANGED << store, pc, mgrVarsOnly, overlapOthers, pgVars >>

\* both goroutines have ended; the driver and its cache stay
OverlapEnd ==
    /\ ~overlap.crashed
    /\ \A w \in 1..2 : overlap.calls[w].pc = "done"
    /\ overlap' = [ overlap EXCEPT !.calls = << IdleCall, IdleCall >> ]
    /\ UNCHANGED << store, pc, mgrVarsOnly, overlapOthers, pgVars >>

\* one call is writing the map while the other reads or writes it
MapRace ==
    \E w, v \in 1..2 :
        /\ w # v
        /\ overlap.calls[w].pc = "writing"
        /\ overlap.calls[v].pc \in { "reading", "writing" }

\* what a race on a map can do besides going unnoticed: the runtime detects
\* the concurrent access and ends the process (fatal error: concurrent map
\* writes)
MapFatal ==
    /\ ~overlap.crashed
    /\ MapRace
    /\ overlap' = [ overlap EXCEPT !.crashed = TRUE ]
    /\ UNCHANGED << store, pc, mgrVarsOnly, overlapOthers, pgVars >>

NextOverlap ==
    \/ \E f1, f2 \in SeqsUpTo(YouTubeItems, MaxOverlapItems) : OverlapStart(f1, f2)
    \/ \E w \in 1..2 : ItemBegin(w)
    \/ \E w \in 1..2 : CacheRead(w)
    \/ \E w \in 1..2 : CacheMiss(w)
    \/ \E w \in 1..2 : CacheWrite(w)
    \/ \E w \in 1..2 : ItemsDone(w)
    \/ OverlapEnd
    \/ MapFatal

SpecOverlap == Init /\ [][NextOverlap]_vars

\* C30: two overlapping Run invocations for one platform share no mutable
\* in-memory state without synchronization: at no time does one write state
\* of the driver while the other reads or writes it, and the runtime never
\* ends the process for such an access.
C30_NoUnsynchronizedSharedState == ~MapRace /\ ~overlap.crashed

====
